---- MODULE Spec2Model ----
(***************************************************************************)
(* uca: the update orchestration engine of cmd/uca/main.go.                *)
(*                                                                         *)
(* One run of runAllWithEvents: the resolved agents are grouped into       *)
(* tasks, detect events and skipped / dry-run results are produced by the  *)
(* main goroutine, then a pool of workers drains the task channel; every   *)
(* worker runs runTask (kind lock, start events, runUpdateCmd with the npm *)
(* retry, batch fallback, results and finish events).  The run-scoped      *)
(* context can be canceled at any moment and a child can be killed by the  *)
(* per-command deadline.                                                   *)
(***************************************************************************)
EXTENDS Integers, Sequences, FiniteSets, TLC

\* ------------------------------------------------------------------ bounds
NumAgents == 2
MaxConcurrency == 2

Agents == 1..NumAgents
\* Goroutine slots: the pool never needs more than one worker per task or
\* more than the largest explicit limit.
WorkerSlots == IF NumAgents > MaxConcurrency THEN NumAgents ELSE MaxConcurrency
Workers == 1..WorkerSlots

\* ------------------------------------------------------- program constants
KindNative == "native"
KindBun == "bun"
KindBrew == "brew"
KindNpm == "npm"
KindPnpm == "pnpm"
KindYarn == "yarn"
KindPip == "pip"
KindUv == "uv"
KindVSCode == "vscode"

statusUpdated == "updated"
statusUnchanged == "unchanged"
statusSkipped == "skipped"
statusFailed == "failed"

reasonMissing == "missing"
reasonManualInstall == "manual install"
reasonNpmNotEmpty == "npm ENOTEMPTY"

phaseDetect == "detect"
phaseStart == "start"
phaseFinish == "finish"

exitCodeTimeout == 124
exitCodeCanceled == 130
\* (*exec.ExitError).ExitCode() of a child ended by a signal (the Kill that
\* exec.CommandContext sends when its context is done).
exitCodeKilled == -1

\* Captured output, by the content the code inspects: the set of the marker
\* texts it contains.  The empty set is an output that is blank after
\* TrimSpace; "plain" is text without any marker.
OutEmpty == {}
OutPlain == {"plain"}
OutENotEmpty == {"ENOTEMPTY"}
Outputs == {OutEmpty, OutPlain, OutENotEmpty}

\* The marker texts of the model, in the spelling a tool prints them.
Markers ==
    {"plain", "TerminalQuotaError", "Quota will reset", "ENOTEMPTY", "errno -66",
     "Directory not empty", "EACCES", "ETIMEDOUT", "SSL routines", "TLS",
     "certificate", "Homebrew is already updating"}

\* strings.ToLower on one marker text.
LowerText(t) ==
    CASE t = "TerminalQuotaError" -> "terminalquotaerror"
      [] t = "Quota will reset" -> "quota will reset"
      [] t = "ENOTEMPTY" -> "enotempty"
      [] t = "Directory not empty" -> "directory not empty"
      [] t = "EACCES" -> "eacces"
      [] t = "ETIMEDOUT" -> "etimedout"
      [] t = "SSL routines" -> "ssl routines"
      [] t = "TLS" -> "tls"
      [] t = "Homebrew is already updating" -> "homebrew is already updating"
      [] OTHER -> t

\* strings.ToLower(output) and strings.Contains(output, s).
ToLower(out) == {LowerText(t) : t \in out}

Contains(out, s) == s \in out


\* Version strings getVersion can return: "unknown" or a concrete version.
VersionUnknown == "unknown"
Versions == {VersionUnknown, "1.0"}

\* The manager kinds the modelled agents can resolve to.
ModelKinds == {KindNative, KindNpm, KindVSCode}

\* ------------------------------------------------------------- commands
\* A command is its leading argv words and the packages it names (each
\* stands for "<pkg>@latest"); the nil command has no words.
NilCmd == [argv |-> <<>>, pkgs |-> <<>>]

IsNil(cmd) == Len(cmd.argv) = 0

\* Mutant: only the node managers are locked.
shouldLockKindNodeOnly(kind) == kind \in {KindNpm, KindPnpm, KindYarn, KindBun}

shouldLockKind(kind) ==
    kind \in {KindNpm, KindPnpm, KindYarn, KindBun, KindBrew, KindPip, KindUv, KindVSCode}

isNodeKind(kind) == kind \in {KindNpm, KindPnpm, KindYarn, KindBun}

nodeBatchUpdateCommand(kind, pkgs) ==
    CASE kind = KindNpm -> [argv |-> <<"npm", "install", "-g">>, pkgs |-> pkgs]
      [] kind = KindPnpm -> [argv |-> <<"pnpm", "add", "-g">>, pkgs |-> pkgs]
      [] kind = KindYarn -> [argv |-> <<"yarn", "global", "add">>, pkgs |-> pkgs]
      [] kind = KindBun -> [argv |-> <<"bun", "add", "-g">>, pkgs |-> pkgs]
      [] OTHER -> NilCmd

nodeUpdateCommand(kind, pkg) ==
    CASE kind = KindNpm -> [argv |-> <<"npm", "install", "-g">>, pkgs |-> <<pkg>>]
      [] kind = KindPnpm -> [argv |-> <<"pnpm", "add", "-g">>, pkgs |-> <<pkg>>]
      [] kind = KindYarn -> [argv |-> <<"yarn", "global", "add">>, pkgs |-> <<pkg>>]
      [] kind = KindBun -> [argv |-> <<"bun", "add", "-g">>, pkgs |-> <<pkg>>]
      [] OTHER -> NilCmd

\* What resolveUpdate returns when a strategy of kind `kind` with package
\* `pkg` matched (package names are numbers, in their sort order; 0 is the
\* empty name).
ResolvedCmd(kind, pkg) ==
    CASE isNodeKind(kind) -> nodeUpdateCommand(kind, pkg)
      [] kind = KindNative -> [argv |-> <<"agent", "update">>, pkgs |-> <<>>]
      [] kind = KindBrew -> [argv |-> <<"brew", "upgrade">>, pkgs |-> <<>>]
      [] kind = KindPip -> [argv |-> <<"python3", "-m", "pip", "install">>, pkgs |-> <<>>]
      [] kind = KindUv -> [argv |-> <<"uv", "tool", "install">>, pkgs |-> <<>>]
      [] kind = KindVSCode -> [argv |-> <<"code", "--install-extension">>, pkgs |-> <<>>]
      [] OTHER -> NilCmd

\* The agentWork entries the resolve loop can leave for agent i: no command
\* and a skip reason, or the command of the matched kind; an agent resolved
\* to a node manager carries its package name (agent i declares package i:
\* distinct, non-empty names, as in the catalog).
ResolveOutcomes(i) ==
    {[cmd |-> NilCmd, reason |-> r, method |-> "", pkg |-> 0] :
        r \in {reasonMissing, reasonManualInstall}}
    \cup
    {[cmd |-> ResolvedCmd(k, i), reason |-> "", method |-> k,
      pkg |-> IF isNodeKind(k) THEN i ELSE 0] : k \in ModelKinds}

isNpmGlobalMutate(cmd) ==
    /\ Len(cmd.argv) >= 2
    /\ cmd.argv[1] = "npm"
    /\ cmd.argv[2] \in {"install", "update"}

\* Mutant: the retry does not look at the command.
shouldRetryAnyCommand(cmd, out) == Contains(out, "ENOTEMPTY")

shouldRetryNpm(cmd, out) ==
    IF ~isNpmGlobalMutate(cmd) THEN FALSE
    ELSE IF Contains(out, "ENOTEMPTY") THEN TRUE
    ELSE IF Contains(out, "errno -66") THEN TRUE
    ELSE IF Contains(out, "directory not empty") THEN TRUE
    ELSE FALSE

reasonQuota == "quota"

\* Mutant: the rename marker is looked for first and on any command.
classifyRenameFirst(cmd, out) ==
    IF Contains(out, "ENOTEMPTY") THEN reasonNpmNotEmpty
    ELSE IF Contains(out, "TerminalQuotaError") THEN reasonQuota
    ELSE ""

\* The reason tag of classifyUpdateFailure ("" when nothing matches); the
\* hint text is not modelled.
classifyUpdateFailure(cmd, out) ==
    LET lower == ToLower(out)
    IN  IF \/ Contains(out, "TerminalQuotaError")
           \/ Contains(lower, "exhausted your capacity")
           \/ Contains(lower, "quota will reset")
        THEN reasonQuota
        ELSE IF /\ isNpmGlobalMutate(cmd)
                /\ \/ Contains(out, "ENOTEMPTY")
                   \/ Contains(out, "errno -66")
                   \/ Contains(lower, "directory not empty")
        THEN reasonNpmNotEmpty
        ELSE IF \/ Contains(lower, "eacces")
                \/ Contains(lower, "eperm")
                \/ Contains(lower, "permission denied")
        THEN "permission"
        ELSE IF \/ Contains(lower, "etimedout")
                \/ Contains(lower, "timed out")
                \/ Contains(lower, "econnreset")
                \/ Contains(lower, "enotfound")
                \/ Contains(lower, "eai_again")
                \/ Contains(lower, "econnrefused")
                \/ Contains(lower, "socket hang up")
        THEN "network"
        ELSE IF \/ Contains(lower, "self signed certificate")
                \/ Contains(lower, "unable to get local issuer certificate")
                \/ Contains(lower, "cert has expired")
                \/ Contains(lower, "ssl routines")
                \/ (Contains(lower, "tls") /\ Contains(lower, "certificate"))
        THEN "tls"
        ELSE IF /\ Len(cmd.argv) > 0
                /\ cmd.argv[1] = "brew"
                /\ \/ Contains(lower, "another active homebrew update process")
                   \/ Contains(lower, "homebrew is already updating")
                   \/ Contains(lower, "cannot install in homebrew prefix")
        THEN "brew busy"
        ELSE ""

\* fmt.Sprintf("exit %d", exitCode)
ExitReason(code) ==
    CASE code = 1 -> "exit 1"
      [] code = exitCodeKilled -> "exit -1"
      [] code = exitCodeTimeout -> "exit 124"
      [] code = exitCodeCanceled -> "exit 130"
      [] OTHER -> "exit 0"

ExitReasons == {"exit 1", "exit -1", "exit 124", "exit 130", "exit 0"}

setFailureResult(code, cmd, out) ==
    CASE code = exitCodeTimeout -> [Status |-> statusFailed, Reason |-> "timeout"]
      [] code = exitCodeCanceled -> [Status |-> statusFailed, Reason |-> "canceled"]
      [] OTHER ->
            [Status |-> statusFailed,
             Reason |-> IF classifyUpdateFailure(cmd, out) = ""
                        THEN ExitReason(code)
                        ELSE classifyUpdateFailure(cmd, out)]

\* Mutant: equal versions give "unchanged" also when they are "unknown".
FinalResultEqualOnly(code, cmd, out, before, after) ==
    IF code # 0 THEN setFailureResult(code, cmd, out)
    ELSE IF before # "" /\ after # "" /\ before = after
    THEN [Status |-> statusUnchanged, Reason |-> ""]
    ELSE [Status |-> statusUpdated, Reason |-> ""]

\* The result of one agent after its deciding command returned `code`.
FinalResult(code, cmd, out, before, after) ==
    IF code # 0 THEN setFailureResult(code, cmd, out)
    ELSE IF before # "" /\ after # "" /\ before = after /\ before # VersionUnknown
    THEN [Status |-> statusUnchanged, Reason |-> ""]
    ELSE [Status |-> statusUpdated, Reason |-> ""]

effectiveConcurrency(o, numTasks) ==
    IF o.Serial THEN 1
    ELSE IF o.Safe /\ o.Concurrency = 0 THEN 1
    ELSE IF o.Concurrency > 0 THEN o.Concurrency
    ELSE IF numTasks <= 0 THEN 1
    ELSE numTasks

\* workerCount of runAllWithEvents: the effective pool size clamped to
\* the number of tasks and to at least one.
WorkerCount(o, numTasks) ==
    LET e == effectiveConcurrency(o, numTasks)
        c == IF e > numTasks THEN numTasks ELSE e
    IN  IF c < 1 THEN 1 ELSE c

\* ---------------------------------------------------------------- helpers
Min(S) == CHOOSE x \in S : \A y \in S : x <= y

\* Mutant: the package names are put in descending order.
RECURSIVE SortedDescending(_)
SortedDescending(S) ==
    IF S = {} THEN <<>>
    ELSE LET mx == CHOOSE x \in S : \A y \in S : y <= x
         IN  <<mx>> \o SortedDescending(S \ {mx})

RECURSIVE SortedSeq(_)
SortedSeq(S) == IF S = {} THEN <<>> ELSE <<Min(S)>> \o SortedSeq(S \ {Min(S)})

SeqRange(s) == {s[k] : k \in 1..Len(s)}

\* Every order in which a Go map with key set S can be iterated.
Orders(S) ==
    {s \in [1..Cardinality(S) -> S] : \A a, b \in 1..Cardinality(S) : a # b => s[a] # s[b]}

RECURSIVE Flatten(_)
Flatten(ss) == IF Len(ss) = 0 THEN <<>> ELSE Head(ss) \o Flatten(Tail(ss))

\* ------------------------------------------------------ agents and catalog
\* An UpdateStrategy: Kind, Package (a number; 0 is the empty name) and
\* ExtensionID ("" when none); only native strategies carry a Command.
Strategy(kind, pkg, ext) == [Kind |-> kind, Package |-> pkg, ExtensionID |-> ext]

nodePackageStrategies(pkg) ==
    <<Strategy(KindNpm, pkg, ""), Strategy(KindPnpm, pkg, ""),
      Strategy(KindYarn, pkg, ""), Strategy(KindBun, pkg, "")>>

\* agents.Default(), one agent of every shape of strategy list: amp (like
\* claude and cursor), gemini (like codex, opencode and pi), copilot, cline,
\* roocode and aider.
Catalog ==
    {[Name |-> "amp", Binary |-> "amp", Strategies |-> <<Strategy(KindNative, 0, "")>>],
     [Name |-> "gemini", Binary |-> "gemini", Strategies |-> nodePackageStrategies(1)],
     [Name |-> "copilot", Binary |-> "copilot",
      Strategies |-> <<Strategy(KindBrew, 4, "")>> \o nodePackageStrategies(2)],
     [Name |-> "cline", Binary |-> "cline",
      Strategies |-> nodePackageStrategies(3) \o <<Strategy(KindVSCode, 0, "claude-dev")>>],
     [Name |-> "roocode", Binary |-> "",
      Strategies |-> <<Strategy(KindVSCode, 0, "roo-cline")>>],
     [Name |-> "aider", Binary |-> "aider",
      Strategies |-> <<Strategy(KindUv, 5, ""), Strategy(KindPip, 5, "")>>]}

BinaryNames == {a.Binary : a \in Catalog} \ {""}

NodeKindSeq == <<KindNpm, KindPnpm, KindYarn, KindBun>>

RECURSIVE nodePackageNameFrom(_, _)
nodePackageNameFrom(strategies, j) ==
    IF j > Len(strategies) THEN 0
    ELSE IF isNodeKind(strategies[j].Kind) /\ strategies[j].Package # 0
    THEN strategies[j].Package
    ELSE nodePackageNameFrom(strategies, j + 1)

nodePackageName(strategies) == nodePackageNameFrom(strategies, 1)

\* ------------------------------------------------------ environment probe
\* exec.LookPath: the cleaned path of the binary ("" when it is not on the
\* search path); a path is named after its binary.
LookPath(e, name) == IF name \in e.path THEN name ELSE ""

\* Mutant: the cache remembers "not found" whatever the lookup returned.
binaryPathStoreEmpty(e, cache, name) == ""

\* envState.binaryPath: the cached path when there is one, else the lookup.
CacheUnset == "unset"

binaryPathStore(e, cache, name) == LookPath(e, name)

binaryPath(e, cache, name) ==
    IF name = "" THEN ""
    ELSE IF cache[name] # CacheUnset THEN cache[name]
    ELSE LookPath(e, name)

\* binPathCache after binaryPath(name) returned.
CacheAfter(e, cache, name) ==
    IF name = "" \/ cache[name] # CacheUnset THEN cache
    ELSE [cache EXCEPT ![name] = binaryPathStore(e, cache, name)]

hasNodeManager(e, kind) ==
    CASE kind = KindNpm -> e.hasNpm
      [] kind = KindPnpm -> e.hasPnpm
      [] kind = KindYarn -> e.hasYarn
      [] kind = KindBun -> e.hasBun
      [] OTHER -> FALSE

\* Mutant: a later manager with a bin dir as long as the best so far does
\* not make a tie.
RECURSIVE BestMatchFirstLongest(_, _, _, _, _, _)
BestMatchFirstLongest(e, matches, j, bestKind, bestLen, tie) ==
    IF j > Len(matches) THEN bestKind
    ELSE IF e.binDirLen[matches[j]] > bestLen
    THEN BestMatchFirstLongest(e, matches, j + 1, matches[j], e.binDirLen[matches[j]], FALSE)
    ELSE BestMatchFirstLongest(e, matches, j + 1, bestKind, bestLen, tie)

\* The longest-directory pick among several matching managers: the kind
\* with the strictly longest bin dir, "" on a tie.
RECURSIVE BestMatch(_, _, _, _, _, _)
BestMatch(e, matches, j, bestKind, bestLen, tie) ==
    IF j > Len(matches) THEN (IF tie THEN "" ELSE bestKind)
    ELSE IF e.binDirLen[matches[j]] > bestLen
    THEN BestMatch(e, matches, j + 1, matches[j], e.binDirLen[matches[j]], FALSE)
    ELSE IF e.binDirLen[matches[j]] = bestLen
    THEN BestMatch(e, matches, j + 1, bestKind, bestLen, TRUE)
    ELSE BestMatch(e, matches, j + 1, bestKind, bestLen, tie)

\* envState.nodeManagerForBinary, given the path binaryPath returned: the
\* manager whose global bin dir is the directory of the binary (or of the
\* file its path links to).
nodeManagerForBinary(e, binPath) ==
    IF binPath = "" THEN ""
    ELSE LET matches == SelectSeq(NodeKindSeq, LAMBDA k : hasNodeManager(e, k) /\ binPath \in e.binDirOf[k])
         IN  IF Len(matches) = 1 THEN matches[1]
             ELSE IF Len(matches) > 1 THEN BestMatch(e, matches, 1, "", -1, FALSE)
             ELSE ""

nodeBinHasBinary(e, kind, name) == name \in e.nodeBin[kind]

nodeManagerHasPackage(e, kind, pkg) == pkg \in e.nodePkgs[kind]

nodeManagerForPackage(e, pkg) ==
    IF pkg = 0 THEN ""
    ELSE LET matches == SelectSeq(NodeKindSeq, LAMBDA k : hasNodeManager(e, k) /\ nodeManagerHasPackage(e, k, pkg))
         IN  IF Len(matches) = 1 THEN matches[1] ELSE ""

\* Mutant: brew never reports a formula as installed.
brewHasNever(e, formula) == FALSE

brewHas(e, formula) == e.hasBrew /\ formula \in e.brewFormulae

pipHas(e, pkg) == e.hasPython /\ pkg \in e.pipPkgs

uvHas(e, pkg) == e.hasUv /\ pkg \in e.uvTools

vscodeHas(e, extID) == e.codeCmd # "" /\ extID \in e.codeExts

\* ------------------------------------------------------------ resolveUpdate
reasonMissingCode == "missing vscode"

Resolution(cmd, reason, method, detail) ==
    [cmd |-> cmd, reason |-> reason, method |-> method, detail |-> detail]

\* The strategy loop of resolveUpdate from strategy j on, then the three
\* returns after it.  binPath is what env.binaryPath(agent.Binary) gives.
RECURSIVE ResolveFrom(_, _, _, _, _, _, _)
ResolveFrom(agent, e, binPath, nodeManager, packageManager, j, codeMissing) ==
    IF j > Len(agent.Strategies)
    THEN IF codeMissing THEN Resolution(NilCmd, reasonMissingCode, "", "no code cli")
         ELSE IF agent.Binary # "" /\ binPath # ""
         THEN Resolution(NilCmd, reasonManualInstall, "", "binary found")
         ELSE Resolution(NilCmd, reasonMissing, "", "nothing detected")
    ELSE
    LET strat == agent.Strategies[j]
        kind == strat.Kind
        skip == ResolveFrom(agent, e, binPath, nodeManager, packageManager, j + 1, codeMissing)
        take(detail) == Resolution(ResolvedCmd(kind, strat.Package), "", kind, detail)
    IN  CASE kind = KindNative ->
                IF agent.Binary # "" /\ binPath = "" THEN skip
                ELSE take("built-in update")
          [] isNodeKind(kind) ->
                IF ~hasNodeManager(e, kind) THEN skip
                ELSE IF agent.Binary = "" \/ strat.Package = 0 THEN skip
                ELSE IF nodeManager # ""
                THEN (IF nodeManager # kind THEN skip ELSE take("matched by bin dir"))
                ELSE IF packageManager # ""
                THEN (IF packageManager # kind THEN skip ELSE take("matched by package list"))
                ELSE IF ~nodeBinHasBinary(e, kind, agent.Binary) THEN skip
                ELSE take("matched by bin dir")
          [] kind = KindBrew ->
                IF ~e.hasBrew THEN skip
                ELSE IF brewHas(e, strat.Package) THEN take("brew formula installed")
                ELSE skip
          [] kind = KindPip ->
                IF ~e.hasPython THEN skip
                ELSE IF pipHas(e, strat.Package) THEN take("pip package installed")
                ELSE skip
          [] kind = KindUv ->
                IF ~e.hasUv THEN skip
                ELSE IF uvHas(e, strat.Package) THEN take("uv tool installed")
                ELSE skip
          [] kind = KindVSCode ->
                IF e.codeCmd = ""
                THEN ResolveFrom(agent, e, binPath, nodeManager, packageManager, j + 1, TRUE)
                ELSE IF vscodeHas(e, strat.ExtensionID) THEN take("extension installed")
                ELSE skip
          [] OTHER -> skip

\* resolveUpdate(agent, env) with binPathCache = cache: what it returns.
resolveUpdate(agent, e, cache) ==
    LET binPath == binaryPath(e, cache, agent.Binary)
        nodeManager == IF agent.Binary # "" THEN nodeManagerForBinary(e, binPath) ELSE ""
        packageName == nodePackageName(agent.Strategies)
        packageManager == IF nodeManager = "" /\ packageName # 0
                          THEN nodeManagerForPackage(e, packageName) ELSE ""
    IN  ResolveFrom(agent, e, binPath, nodeManager, packageManager, 1, FALSE)

\* The agentWork the resolve loop of runAllWithEvents stores for a
\* resolution: updateCmdSingle, reason, method and, for a node manager, the
\* agent's package name.
WorkOf(agent, r) ==
    [cmd |-> r.cmd, reason |-> r.reason, method |-> r.method,
     pkg |-> IF isNodeKind(r.method) THEN nodePackageName(agent.Strategies) ELSE 0]

VARIABLES
    opts,        \* options: Serial, Safe, Concurrency, DryRun, Timeout
    uiEnabled,   \* events != nil
    resolved,    \* per agent, what resolveUpdate returned
    tasks,       \* []updateTask
    phase,       \* where the main goroutine is
    di,          \* next index of the detect loop
    effConc,     \* effectiveConcurrency(opts, len(tasks)) as computed by the run
    workerCount, \* number of worker goroutines started
    next,        \* index of the next task the feeder sends
    closed,      \* taskCh closed
    wk,          \* per worker goroutine: its local state
    mu,          \* managerLocker.mu: its holder
    locks,       \* managerLocker.locks: kind -> mutex (0: absent)
    mutexes,     \* the mutexes created so far: holder of each
    results,     \* results[]
    writes,      \* per slot, how many times it was assigned
    evlog,       \* per agent, the phases of the events sent for it, in order
    canceled,    \* the run-scoped context is done
    lastEnd,     \* per agent of a task in progress, how the last attempt of its command ended
    lateChild,   \* a child update process was started after cancellation
    exitStatus,  \* the exit status of the process, once main has returned
    selected,    \* the selected agents, by index
    env,         \* the probe snapshot: what the lookups and listings report
    binPathCache, \* envState.binPathCache
    ri,          \* next index of the resolve loop
    resolutions, \* per agent, what each resolveUpdate call for it returned
    uc,          \* one runUpdateCmd call followed by the result it decides
    resultAgent, \* per slot of results[], the agent its Result names (0: none)
    resultVersions, \* per slot of results[], Before and After of its Result
    ui,          \* the events channel and the rows of the dashboard goroutine
    cl,          \* one cleanupNpmENotEmpty call followed by the retry
    once,        \* one lazily loaded probe value, its sync.Once and its callers
    nm,          \* one nodeManagerForBinary call
    fb           \* one iteration of the individual retries after a failed batch

vars == <<opts, uiEnabled, resolved, tasks, phase, di, effConc, workerCount, next,
          closed, wk, mu, locks, mutexes, results, writes, evlog, canceled,
          lastEnd, lateChild, exitStatus, selected, env, binPathCache, ri,
          resolutions, uc, resultAgent, resultVersions, ui, cl, once, nm, fb>>

\* The state of the resolve loop and of the probe, and the single update
\* command call.
frontVars == <<selected, env, binPathCache, ri, resolutions>>

\* The calls that are modelled on their own.
callVars == <<uc, cl, once, nm, fb>>

\* ------------------------------------------------------------------- Init
OptionSets ==
    [Serial : BOOLEAN, Safe : BOOLEAN, Concurrency : (-1)..MaxConcurrency,
     DryRun : BOOLEAN, Timeout : {0, 1}]

IdleWorker ==
    [pc |-> "none", task |-> 0, m |-> 0, attempt |-> 0,
     fi |-> 0, ind |-> FALSE, code |-> 0, out |-> OutEmpty, first |-> OutEmpty]

ZeroResult == [Status |-> "", Reason |-> ""]

AllKinds ==
    {KindNative, KindBun, KindBrew, KindNpm, KindPnpm, KindYarn, KindPip, KindUv, KindVSCode}

\* The value of a variable that a specification leaves out: Spec begins
\* after the resolve loop, with any works the loop can leave.
Abstracted == "abstracted"

\* No separate runUpdateCmd call is in progress.
NoCall ==
    [cmd |-> NilCmd, timeout |-> 0, ctxDone |-> FALSE, l |-> IdleWorker,
     attempts |-> <<>>, durs |-> <<>>, duration |-> 0, res |-> ZeroResult]

\* Mutant: the index stored in a work is counted from the other end.
workIndexReversed(i) == NumAgents + 1 - i

\* works[i].index: the slot of results[] that the work of the i-th selected
\* agent writes.
workIndex(i) == i

\* events := make(chan updateEvent, len(selected)*4)
eventsPerAgent == 4

\* Mutant: the channel holds two events per selected agent.
eventsCapHalf == NumAgents * 2

eventsCap == NumAgents * eventsPerAgent

\* No dashboard goroutine: events are only logged per agent in evlog.
\* Before and After of a Result whose versions were not probed.
NoVersions == [Before |-> "", After |-> ""]

\* rows[i].status is kept in rows, and rows[i].reason, before and after in
\* detail.
UiOff ==
    [on |-> FALSE, events |-> <<>>, rows |-> [i \in Agents |-> "pending"],
     detail |-> [i \in Agents |-> [reason |-> "", before |-> "", after |-> ""]]]

\* The dashboard before the first event: every row pending.
UiOn == [UiOff EXCEPT !.on = TRUE]

\* updateEvent{Index, Phase, Result}: the fields applyEvent reads.
Event(i, ph, status, reason, ver) ==
    [Index |-> workIndex(i), Phase |-> ph, Status |-> status, Reason |-> reason,
     Before |-> ver.Before, After |-> ver.After]

\* events <- ev, for each ev of evs in turn: there is room in the channel,
\* or the sender waits.
CanSend(n) == (uiEnabled /\ ui.on) => Len(ui.events) + n <= eventsCap

Send(evs) == IF uiEnabled /\ ui.on THEN [ui EXCEPT !.events = @ \o evs] ELSE ui

\* A path name: absolute or not, the elements of its directory and its last
\* element, a name spelled as a sequence of characters.  The empty path has
\* no last element.
EmptyPath == [abs |-> FALSE, dir |-> <<>>, base |-> <<>>]

NoCleanup ==
    [path |-> EmptyPath, dest |-> EmptyPath, destExists |-> FALSE, removeFails |-> FALSE,
     pc |-> "none", removed |-> {}, msg |-> "", retried |-> FALSE]

\* The goroutines that query one lazily loaded value: the pre-load
\* goroutine of the dashboard, the resolve loop and a worker.
NumCallers == 3

OnceCallers == 1..NumCallers

\* The field before its load function ran.
ZeroValue == "zero value"

NoOnce ==
    [done |-> FALSE, m |-> 0, value |-> ZeroValue, loads |-> 0,
     callers |-> [c \in OnceCallers |-> [pc |-> "none", obs |-> ZeroValue, calls |-> 0]]]

NodeKinds == SeqRange(NodeKindSeq)

NoLookup ==
    [mgr |-> [k \in NodeKinds |-> [present |-> FALSE, dir |-> "", len |-> 0]],
     found |-> FALSE, linked |-> FALSE, pc |-> "none", result |-> ""]

\* No iteration of the individual retries is modelled on its own.
NoRetryPass ==
    [pc |-> "none", out |-> <<>>, explain |-> <<>>, indOut |-> <<>>, indCode |-> 0,
     log |-> <<>>]

CallsIdle == cl = NoCleanup /\ once = NoOnce /\ nm = NoLookup /\ fb = NoRetryPass

\* The state of the run before the first task is built; exitStatus -1: the
\* process has not exited.
RunInit ==
    /\ resultAgent = [i \in Agents |-> 0]
    /\ resultVersions = [i \in Agents |-> NoVersions]
    /\ tasks = <<>>
    /\ di = 1
    /\ effConc = 0
    /\ workerCount = 0
    /\ next = 1
    /\ closed = FALSE
    /\ wk = [w \in Workers |-> IdleWorker]
    /\ mu = 0
    /\ locks = [k \in AllKinds |-> 0]
    /\ mutexes = <<>>
    /\ results = [i \in Agents |-> ZeroResult]
    /\ writes = [i \in Agents |-> 0]
    /\ evlog = [i \in Agents |-> <<>>]
    /\ canceled = FALSE
    /\ lastEnd = [i \in Agents |-> "none"]
    /\ lateChild = FALSE
    /\ exitStatus = -1

FrontAbstracted ==
    /\ selected = Abstracted
    /\ env = Abstracted
    /\ binPathCache = Abstracted
    /\ ri = NumAgents + 1
    /\ resolutions = Abstracted

Init ==
    /\ opts \in OptionSets
    /\ uiEnabled \in BOOLEAN
    /\ resolved \in {r \in [Agents -> UNION {ResolveOutcomes(i) : i \in Agents}] :
                        \A i \in Agents : r[i] \in ResolveOutcomes(i)}
    /\ phase = "build"
    /\ RunInit
    /\ FrontAbstracted
    /\ uc = NoCall
    /\ ui = UiOff
    /\ CallsIdle

\* ------------------------------------------------- main goroutine: tasks
IdxSeq == [k \in 1..NumAgents |-> k]

\* Mutant: the `continue` after nodeGroups[...] = append(...) is missing, so
\* a node agent also gets a singleton task.
NonNodeTasksNoContinue(res) ==
    LET idxs == SelectSeq(IdxSeq, LAMBDA i : ~IsNil(res[i].cmd))
    IN  [j \in 1..Len(idxs) |->
            [kind |-> res[idxs[j]].method, cmd |-> res[idxs[j]].cmd, agents |-> <<idxs[j]>>]]

\* The singleton tasks of the agents whose method is not a node manager.
NonNodeTasks(res) ==
    LET idxs == SelectSeq(IdxSeq, LAMBDA i : ~IsNil(res[i].cmd) /\ ~isNodeKind(res[i].method))
    IN  [j \in 1..Len(idxs) |->
            [kind |-> res[idxs[j]].method, cmd |-> res[idxs[j]].cmd, agents |-> <<idxs[j]>>]]

\* Mutant: an agent without a package name gets its singleton task and is
\* also put in the batch.
GroupTasksBatchAll(res, kind) ==
    LET idxs == SelectSeq(IdxSeq, LAMBDA i : ~IsNil(res[i].cmd) /\ res[i].method = kind)
        singles == SelectSeq(idxs, LAMBDA i : res[i].pkg = 0)
        pkgs == SortedSeq({res[i].pkg : i \in SeqRange(idxs)})
    IN  [j \in 1..Len(singles) |->
            [kind |-> kind, cmd |-> res[singles[j]].cmd, agents |-> <<singles[j]>>]]
        \o <<[kind |-> kind, cmd |-> nodeBatchUpdateCommand(kind, pkgs), agents |-> idxs]>>

\* The tasks of one nodeGroups entry: a singleton per agent without a
\* package name, then one batch task for the others.
GroupTasks(res, kind) ==
    LET idxs == SelectSeq(IdxSeq, LAMBDA i : ~IsNil(res[i].cmd) /\ res[i].method = kind)
        singles == SelectSeq(idxs, LAMBDA i : res[i].pkg = 0)
        batchIndexes == SelectSeq(idxs, LAMBDA i : res[i].pkg # 0)
        pkgs == SortedSeq({res[i].pkg : i \in SeqRange(batchIndexes)})
    IN  [j \in 1..Len(singles) |->
            [kind |-> kind, cmd |-> res[singles[j]].cmd, agents |-> <<singles[j]>>]]
        \o (IF Len(batchIndexes) = 0 THEN <<>>
            ELSE <<[kind |-> kind, cmd |-> nodeBatchUpdateCommand(kind, pkgs),
                    agents |-> batchIndexes]>>)

NodeGroupKinds(res) ==
    {k \in AllKinds : isNodeKind(k) /\ \E i \in Agents : ~IsNil(res[i].cmd) /\ res[i].method = k}

BuildTasks ==
    /\ phase = "build"
    /\ \E order \in Orders(NodeGroupKinds(resolved)) :
          tasks' = NonNodeTasks(resolved)
                   \o Flatten([j \in 1..Len(order) |-> GroupTasks(resolved, order[j])])
    /\ phase' = "detect"
    /\ UNCHANGED <<frontVars, callVars, resultAgent, resultVersions, ui, exitStatus, opts, uiEnabled, resolved, di, effConc, workerCount, next, closed, wk,
                   mu, locks, mutexes, results, writes, evlog, canceled, lastEnd, lateChild>>

\* ------------------------------------- main goroutine: detect, skip, dry-run
\* Mutant: the two events of a skipped agent are sent in the wrong order.
SkipEventsSwapped == <<phaseFinish, phaseDetect>>

\* Mutant: a dry-run agent also gets a start event.
DryRunEventsWithStart == <<phaseDetect, phaseStart, phaseFinish>>

\* The events of an agent without an update command, and of a dry-run
\* agent, in the order they are sent.
SkipEvents == <<phaseDetect, phaseFinish>>

DryRunEvents == <<phaseDetect, phaseFinish>>

\* events <- updateEvent{Index: i, Phase: ph}, a no-op without a channel.
Emit(log, i, phs) == IF uiEnabled THEN [log EXCEPT ![i] = @ \o phs] ELSE log

\* Mutant: a skipped agent's Result is left without a reason.
skipReasonNone(work) == ""

\* res.Reason of an agent without an update command.
skipReason(work) == IF work.reason = "" THEN reasonMissing ELSE work.reason

DetectSkipped ==
    /\ phase = "detect" /\ di <= NumAgents
    /\ IsNil(resolved[di].cmd)
    /\ CanSend(2)
    /\ LET reason == skipReason(resolved[di])
       IN  /\ results' = [results EXCEPT ![workIndex(di)] =
                 [Status |-> statusSkipped, Reason |-> reason]]
           /\ ui' = Send([j \in 1..Len(SkipEvents) |->
                           Event(di, SkipEvents[j], statusSkipped, reason, NoVersions)])
    /\ resultAgent' = [resultAgent EXCEPT ![workIndex(di)] = di]
    /\ resultVersions' = [resultVersions EXCEPT ![workIndex(di)] = NoVersions]
    /\ writes' = [writes EXCEPT ![workIndex(di)] = @ + 1]
    /\ evlog' = Emit(evlog, di, SkipEvents)
    /\ di' = di + 1
    /\ UNCHANGED <<frontVars, callVars, exitStatus, opts, uiEnabled, resolved, tasks, phase, effConc, workerCount, next,
                   closed, wk, mu, locks, mutexes, canceled, lastEnd, lateChild>>

\* res.Before = getVersion(...) and res.After of a dry run: Before again,
\* or for a node manager the latest version of the package when
\* nodeLatestVersion finds one.
DryRunProbes(method) ==
    {[Before |-> b, After |-> b] : b \in Versions}
    \cup (IF isNodeKind(method)
          THEN {[Before |-> b, After |-> "1.0"] : b \in Versions}
          ELSE {})

DetectDryRun ==
    /\ phase = "detect" /\ di <= NumAgents
    /\ ~IsNil(resolved[di].cmd)
    /\ opts.DryRun
    /\ CanSend(2)
    /\ results' = [results EXCEPT ![workIndex(di)] = [Status |-> statusUpdated, Reason |-> "dry-run"]]
    /\ \E p \in DryRunProbes(resolved[di].method) :
          /\ ui' = Send([j \in 1..Len(DryRunEvents) |->
                          IF DryRunEvents[j] = phaseFinish
                          THEN Event(di, phaseFinish, statusUpdated, "dry-run", p)
                          ELSE Event(di, DryRunEvents[j], "", "", NoVersions)])
          /\ resultVersions' = [resultVersions EXCEPT ![workIndex(di)] = p]
    /\ resultAgent' = [resultAgent EXCEPT ![workIndex(di)] = di]
    /\ writes' = [writes EXCEPT ![workIndex(di)] = @ + 1]
    /\ evlog' = Emit(evlog, di, DryRunEvents)
    /\ di' = di + 1
    /\ UNCHANGED <<frontVars, callVars, exitStatus, opts, uiEnabled, resolved, tasks, phase, effConc, workerCount, next,
                   closed, wk, mu, locks, mutexes, canceled, lastEnd, lateChild>>

DetectPending ==
    /\ phase = "detect" /\ di <= NumAgents
    /\ ~IsNil(resolved[di].cmd)
    /\ ~opts.DryRun
    /\ CanSend(1)
    /\ ui' = Send(<<Event(di, phaseDetect, "", "", NoVersions)>>)
    /\ evlog' = Emit(evlog, di, <<phaseDetect>>)
    /\ di' = di + 1
    /\ UNCHANGED <<frontVars, callVars, resultAgent, resultVersions, exitStatus, opts, uiEnabled, resolved, tasks, phase, effConc, workerCount, next,
                   closed, wk, mu, locks, mutexes, results, writes, canceled, lastEnd,
                   lateChild>>

\* Mutant: the run does not return after the detect loop of a dry run.
DryRunNeverReturns == FALSE

\* if opts.DryRun { return results }
DryRunReturns == opts.DryRun

ReturnDryRun ==
    /\ phase = "detect" /\ di > NumAgents
    /\ DryRunReturns
    /\ phase' = "done"
    /\ UNCHANGED <<frontVars, callVars, resultAgent, resultVersions, ui, exitStatus, opts, uiEnabled, resolved, tasks, di, effConc, workerCount, next,
                   closed, wk, mu, locks, mutexes, results, writes, evlog, canceled,
                   lastEnd, lateChild>>

\* --------------------------------------------- main goroutine: worker pool
StartWorkers ==
    /\ phase = "detect" /\ di > NumAgents
    /\ ~DryRunReturns
    /\ effConc' = effectiveConcurrency(opts, Len(tasks))
    /\ workerCount' = WorkerCount(opts, Len(tasks))
    /\ wk' = [w \in Workers |->
                IF w <= WorkerCount(opts, Len(tasks)) THEN [IdleWorker EXCEPT !.pc = "idle"]
                ELSE IdleWorker]
    /\ phase' = "feed"
    /\ UNCHANGED <<frontVars, callVars, resultAgent, resultVersions, ui, exitStatus, opts, uiEnabled, resolved, tasks, di, next, closed, mu, locks, mutexes,
                   results, writes, evlog, canceled, lastEnd, lateChild>>

\* Mutant: the feeder stops sending once an agent has failed.
MoreTasksUnlessFailed ==
    next <= Len(tasks) /\ \A i \in Agents : results[i].Status # statusFailed

\* for _, task := range tasks: the feeder has a task left to send.
MoreTasks == next <= Len(tasks)

\* taskCh <- task, taken by an idle worker (the channel is unbuffered), and
\* the first lines of runTask.
Receive(w) ==
    /\ phase = "feed" /\ MoreTasks
    /\ wk[w].pc = "idle"
    /\ wk' = [wk EXCEPT ![w] =
          [IdleWorker EXCEPT
             !.task = next,
             !.pc = IF Len(tasks[next].agents) = 0 THEN "idle"
                    ELSE IF shouldLockKind(tasks[next].kind) THEN "lock_mu"
                    ELSE "prepare"]]
    /\ next' = next + 1
    /\ UNCHANGED <<frontVars, callVars, resultAgent, resultVersions, ui, exitStatus, opts, uiEnabled, resolved, tasks, phase, di, effConc, workerCount,
                   closed, mu, locks, mutexes, results, writes, evlog, canceled, lastEnd,
                   lateChild>>

CloseTaskCh ==
    /\ phase = "feed" /\ ~MoreTasks
    /\ closed' = TRUE
    /\ phase' = "wait"
    /\ UNCHANGED <<frontVars, callVars, resultAgent, resultVersions, ui, exitStatus, opts, uiEnabled, resolved, tasks, di, effConc, workerCount, next, wk,
                   mu, locks, mutexes, results, writes, evlog, canceled, lastEnd, lateChild>>

WorkerExit(w) ==
    /\ closed
    /\ wk[w].pc = "idle"
    /\ wk' = [wk EXCEPT ![w].pc = "exited"]
    /\ UNCHANGED <<frontVars, callVars, resultAgent, resultVersions, ui, exitStatus, opts, uiEnabled, resolved, tasks, phase, di, effConc, workerCount, next,
                   closed, mu, locks, mutexes, results, writes, evlog, canceled, lastEnd,
                   lateChild>>

WaitDone ==
    /\ phase = "wait"
    /\ \A w \in Workers : w <= workerCount => wk[w].pc = "exited"
    /\ phase' = "done"
    /\ UNCHANGED <<frontVars, callVars, resultAgent, resultVersions, ui, exitStatus, opts, uiEnabled, resolved, tasks, di, effConc, workerCount, next,
                   closed, wk, mu, locks, mutexes, results, writes, evlog, canceled,
                   lastEnd, lateChild>>

\* signal.NotifyContext: the run-scoped context is canceled.
Cancel ==
    /\ ~canceled
    /\ phase \notin {"done", "exited"}
    /\ canceled' = TRUE
    /\ UNCHANGED <<frontVars, callVars, resultAgent, resultVersions, ui, exitStatus, opts, uiEnabled, resolved, tasks, phase, di, effConc, workerCount, next,
                   closed, wk, mu, locks, mutexes, results, writes, evlog, lastEnd,
                   lateChild>>

\* ------------------------------------------------ managerLocker.lock(kind)
Task(w) == tasks[wk[w].task]

\* Mutant: the create-if-absent check runs without holding l.mu.
MuAvailableUnguarded(holder) == TRUE

\* l.mu.Lock() returns only when no goroutine holds l.mu.
MuAvailable(holder) == holder = 0

\* Mutant: every kind shares one mutex.
LockKeyShared(kind) == KindNpm

\* The key under which a kind's mutex is kept in l.locks.
LockKey(kind) == kind

\* l.mu.Lock(); m, ok := l.locks[kind]
LockMu(w) ==
    /\ wk[w].pc = "lock_mu"
    /\ MuAvailable(mu)
    /\ mu' = w
    /\ wk' = [wk EXCEPT ![w].pc = "lock_new", ![w].m = locks[LockKey(Task(w).kind)]]
    /\ UNCHANGED <<frontVars, callVars, resultAgent, resultVersions, ui, exitStatus, opts, uiEnabled, resolved, tasks, phase, di, effConc, workerCount, next,
                   closed, locks, mutexes, results, writes, evlog, canceled, lastEnd,
                   lateChild>>

\* if !ok { m = &sync.Mutex{}; l.locks[kind] = m }; l.mu.Unlock()
LockNew(w) ==
    /\ wk[w].pc = "lock_new"
    /\ IF wk[w].m = 0
       THEN /\ mutexes' = Append(mutexes, 0)
            /\ locks' = [locks EXCEPT ![LockKey(Task(w).kind)] = Len(mutexes) + 1]
            /\ wk' = [wk EXCEPT ![w].pc = "lock_m", ![w].m = Len(mutexes) + 1]
       ELSE /\ wk' = [wk EXCEPT ![w].pc = "lock_m"]
            /\ UNCHANGED <<locks, mutexes>>
    /\ mu' = 0
    /\ UNCHANGED <<frontVars, callVars, resultAgent, resultVersions, ui, exitStatus, opts, uiEnabled, resolved, tasks, phase, di, effConc, workerCount, next,
                   closed, results, writes, evlog, canceled, lastEnd, lateChild>>

\* m.Lock()
MLock(w) ==
    /\ wk[w].pc = "lock_m"
    /\ mutexes[wk[w].m] = 0
    /\ mutexes' = [mutexes EXCEPT ![wk[w].m] = w]
    /\ wk' = [wk EXCEPT ![w].pc = "prepare"]
    /\ UNCHANGED <<frontVars, callVars, resultAgent, resultVersions, ui, exitStatus, opts, uiEnabled, resolved, tasks, phase, di, effConc, workerCount, next,
                   closed, mu, locks, results, writes, evlog, canceled, lastEnd, lateChild>>

\* ------------------------------------------------------------- runTask
\* The prepared results and the start events.  The Before version probed
\* here is an input that runTask reads only when it sets the status, so
\* the model draws it there.
Prepare(w) ==
    /\ wk[w].pc = "prepare"
    /\ wk' = [wk EXCEPT ![w].pc = "run", ![w].attempt = 1]
    /\ CanSend(Len(Task(w).agents))
    /\ ui' = Send([j \in 1..Len(Task(w).agents) |->
                    Event(Task(w).agents[j], phaseStart, "", "", NoVersions)])
    /\ evlog' = [i \in Agents |->
                    IF uiEnabled /\ i \in SeqRange(Task(w).agents)
                    THEN Append(evlog[i], phaseStart) ELSE evlog[i]]
    /\ UNCHANGED <<frontVars, callVars, resultAgent, resultVersions, exitStatus, opts, uiEnabled, resolved, tasks, phase, di, effConc, workerCount, next,
                   closed, mu, locks, mutexes, results, writes, canceled, lastEnd,
                   lateChild>>

\* The command the worker's current runUpdateCmd call runs, and the agents
\* whose result that call decides.
CurCmd(w) ==
    IF wk[w].ind THEN resolved[Task(w).agents[wk[w].fi]].cmd ELSE Task(w).cmd

CurAgents(w) ==
    IF wk[w].ind THEN {Task(w).agents[wk[w].fi]} ELSE SeqRange(Task(w).agents)

\* Mutant: a failed batch is never split.
NoFallback(code, task) == FALSE

\* exitCode != 0 && len(task.agents) > 1 && isNodeKind(kind)
NeedsFallback(code, task) ==
    code # 0 /\ Len(task.agents) > 1 /\ isNodeKind(task.kind)

\* runUpdateCmd returned (classifyOut, code): where runTask goes.
Final(l, task, code, classifyOut) ==
    IF l.ind
    THEN [l EXCEPT !.pc = "ind_finish", !.code = code, !.out = classifyOut]
    ELSE IF NeedsFallback(code, task)
    THEN [l EXCEPT !.pc = "run", !.ind = TRUE, !.fi = 1, !.attempt = 1,
                   !.first = OutEmpty]
    ELSE [l EXCEPT !.pc = "finish", !.fi = 1, !.code = code, !.out = classifyOut]

\* Mutant: after the retry the classifier still gets the first output.
AfterRunCmdKeepsFirst(l, task, cmd, code, out) ==
    IF l.attempt = 1
    THEN IF code = 0 THEN Final(l, task, code, out)
         ELSE IF shouldRetryNpm(cmd, out)
         THEN [l EXCEPT !.pc = "run", !.attempt = 2, !.first = out]
         ELSE Final(l, task, code, out)
    ELSE Final(l, task, code, l.first)

\* runUpdateCmd after one runCmd returned (out, code): the one-shot npm
\* retry, and the output the classifier gets.
AfterRunCmd(l, task, cmd, code, out) ==
    IF l.attempt = 1
    THEN IF code = 0 THEN Final(l, task, code, out)
         ELSE IF shouldRetryNpm(cmd, out)
         THEN [l EXCEPT !.pc = "run", !.attempt = 2, !.first = out]
         ELSE Final(l, task, code, out)
    ELSE Final(l, task, code, IF out = OutEmpty THEN l.first ELSE out)

\* exec.Cmd.Start under cmdCtx: with the context already done no child is
\* started and Run returns ctx.Err(); otherwise the child starts.
StartOutcomes(isCanceled, timeout) ==
    IF isCanceled
    THEN {[started |-> FALSE, code |-> exitCodeCanceled, how |-> "notstarted"]}
    ELSE {[started |-> TRUE, code |-> 0, how |-> "started"]}
         \cup (IF timeout > 0
               THEN {[started |-> FALSE, code |-> exitCodeTimeout, how |-> "expired"]}
               ELSE {})

\* What a child that ran `cmd` can have written, as far as the code can
\* tell the difference: the rename marker is looked for only in the output
\* of an npm global install/update, and an empty output is classified like
\* one without markers.
ChildOutputs(cmd) == IF isNpmGlobalMutate(cmd) THEN {OutPlain, OutENotEmpty} ELSE {OutPlain}

\* How cmd.Run returns for a child in flight: it exits on its own; or the
\* context kills it and Run returns the *exec.ExitError of the signal
\* (neither context.DeadlineExceeded nor context.Canceled), exit code -1;
\* or it exits with success just as the kill is sent and Run returns
\* ctx.Err().
EndOutcomes(cmd, isCanceled, timeout) ==
    {[code |-> 0, out |-> OutPlain, how |-> "exit"]}
    \cup {[code |-> 1, out |-> o, how |-> "exit"] : o \in ChildOutputs(cmd)}
    \cup (IF isCanceled
          THEN {[code |-> exitCodeKilled, out |-> o, how |-> "canceled"] : o \in ChildOutputs(cmd)}
               \cup {[code |-> exitCodeCanceled, out |-> OutPlain, how |-> "canceled"]}
          ELSE {})
    \cup (IF timeout > 0
          THEN {[code |-> exitCodeKilled, out |-> o, how |-> "timeout"] : o \in ChildOutputs(cmd)}
               \cup {[code |-> exitCodeTimeout, out |-> OutPlain, how |-> "timeout"]}
          ELSE {})

MarkEnd(w, how) == [i \in Agents |-> IF i \in CurAgents(w) THEN how ELSE lastEnd[i]]

\* runCmd up to cmd.Run(): the child is started, or Run fails at once.
CmdStart(w) ==
    /\ wk[w].pc = "run"
    /\ \E o \in StartOutcomes(canceled, opts.Timeout) :
          IF o.started
          THEN /\ wk' = [wk EXCEPT ![w].pc = "wait"]
               /\ lateChild' = (lateChild \/ canceled)
               /\ UNCHANGED lastEnd
          ELSE /\ wk' = [wk EXCEPT ![w] = AfterRunCmd(wk[w], Task(w), CurCmd(w), o.code, OutEmpty)]
               /\ lastEnd' = MarkEnd(w, o.how)
               /\ UNCHANGED lateChild
    /\ UNCHANGED <<frontVars, callVars, resultAgent, resultVersions, ui, exitStatus, opts, uiEnabled, resolved, tasks, phase, di, effConc, workerCount, next,
                   closed, mu, locks, mutexes, results, writes, evlog, canceled>>

\* cmd.Run() returns for the child in flight, and runCmd maps the error to
\* an exit code.
CmdEnd(w) ==
    /\ wk[w].pc = "wait"
    /\ \E o \in EndOutcomes(CurCmd(w), canceled, opts.Timeout) :
          /\ wk' = [wk EXCEPT ![w] = AfterRunCmd(wk[w], Task(w), CurCmd(w), o.code, o.out)]
          /\ lastEnd' = MarkEnd(w, o.how)
    /\ UNCHANGED <<frontVars, callVars, resultAgent, resultVersions, ui, exitStatus, opts, uiEnabled, resolved, tasks, phase, di, effConc, workerCount, next,
                   closed, mu, locks, mutexes, results, writes, evlog, canceled, lateChild>>

\* The version probes around one deciding command of the run: Before
\* and After are each "unknown" or a version; after a failed command the
\* run is modelled for an agent whose version is known and was left as
\* it was.
VersionProbes(code) ==
    IF code = 0 THEN [Before : Versions, After : Versions]
    ELSE {[Before |-> "1.0", After |-> "1.0"]}

\* One iteration of the loop that follows a batch success or a non-batch
\* failure: results[work.index] = res and the finish event.  After the last
\* iteration only the deferred unlock is left, and the locals are dead.
FinishStep(w) ==
    /\ wk[w].pc = "finish"
    /\ LET i == Task(w).agents[wk[w].fi]
       IN  /\ CanSend(1)
           /\ \E p \in VersionProbes(wk[w].code) :
                 LET res == FinalResult(wk[w].code, Task(w).cmd, wk[w].out, p.Before, p.After)
                 IN  /\ results' = [results EXCEPT ![workIndex(i)] = res]
                     /\ ui' = Send(<<Event(i, phaseFinish, res.Status, res.Reason, p)>>)
                     /\ resultVersions' = [resultVersions EXCEPT ![workIndex(i)] = p]
           /\ resultAgent' = [resultAgent EXCEPT ![workIndex(i)] = i]
           /\ writes' = [writes EXCEPT ![workIndex(i)] = @ + 1]
           /\ evlog' = Emit(evlog, i, <<phaseFinish>>)
    /\ wk' = [wk EXCEPT ![w] =
          IF wk[w].fi = Len(Task(w).agents)
          THEN [IdleWorker EXCEPT !.pc = "unlock", !.task = wk[w].task, !.m = wk[w].m]
          ELSE [wk[w] EXCEPT !.fi = @ + 1]]
    /\ UNCHANGED <<frontVars, callVars, exitStatus, opts, uiEnabled, resolved, tasks, phase, di, effConc, workerCount, next,
                   closed, mu, locks, mutexes, canceled, lastEnd, lateChild>>

\* The end of one iteration of the fallback loop: the agent's result comes
\* from its own singleton command.
IndFinish(w) ==
    /\ wk[w].pc = "ind_finish"
    /\ LET i == Task(w).agents[wk[w].fi]
       IN  /\ CanSend(1)
           /\ \E p \in VersionProbes(wk[w].code) :
                 LET res == FinalResult(wk[w].code, resolved[i].cmd, wk[w].out, p.Before, p.After)
                 IN  /\ results' = [results EXCEPT ![workIndex(i)] = res]
                     /\ ui' = Send(<<Event(i, phaseFinish, res.Status, res.Reason, p)>>)
                     /\ resultVersions' = [resultVersions EXCEPT ![workIndex(i)] = p]
           /\ resultAgent' = [resultAgent EXCEPT ![workIndex(i)] = i]
           /\ writes' = [writes EXCEPT ![workIndex(i)] = @ + 1]
           /\ evlog' = Emit(evlog, i, <<phaseFinish>>)
    /\ wk' = [wk EXCEPT ![w].fi = @ + 1,
                        ![w].attempt = 1,
                        ![w].first = OutEmpty,
                        ![w].out = OutEmpty,
                        ![w].pc = IF wk[w].fi = Len(Task(w).agents) THEN "unlock" ELSE "run"]
    /\ UNCHANGED <<frontVars, callVars, exitStatus, opts, uiEnabled, resolved, tasks, phase, di, effConc, workerCount, next,
                   closed, mu, locks, mutexes, canceled, lastEnd, lateChild>>

\* Mutant: the worker returns from runTask without releasing the mutex.
UnlockKeeps(w) ==
    /\ wk[w].pc = "unlock"
    /\ wk' = [wk EXCEPT ![w] = [IdleWorker EXCEPT !.pc = "idle"]]
    /\ lastEnd' = [i \in Agents |-> IF i \in SeqRange(Task(w).agents) THEN "none" ELSE lastEnd[i]]
    /\ UNCHANGED <<frontVars, callVars, resultAgent, resultVersions, ui, exitStatus, opts, uiEnabled, resolved, tasks, phase, di, effConc, workerCount, next,
                   closed, mu, locks, mutexes, results, writes, evlog, canceled, lateChild>>

\* defer unlock(), and the worker is back at `for task := range taskCh`.
Unlock(w) ==
    /\ wk[w].pc = "unlock"
    /\ mutexes' = IF wk[w].m # 0 THEN [mutexes EXCEPT ![wk[w].m] = 0] ELSE mutexes
    /\ wk' = [wk EXCEPT ![w] = [IdleWorker EXCEPT !.pc = "idle"]]
    /\ lastEnd' = [i \in Agents |-> IF i \in SeqRange(Task(w).agents) THEN "none" ELSE lastEnd[i]]
    /\ UNCHANGED <<frontVars, callVars, resultAgent, resultVersions, ui, exitStatus, opts, uiEnabled, resolved, tasks, phase, di, effConc, workerCount, next,
                   closed, mu, locks, results, writes, evlog, canceled, lateChild>>

\* ------------------------------------------------------------ process exit
RECURSIVE hasFailuresFrom(_, _)
hasFailuresFrom(res, j) ==
    IF j > Len(res) THEN FALSE
    ELSE IF res[j].Status = statusFailed THEN TRUE
    ELSE hasFailuresFrom(res, j + 1)

\* Mutant: a skipped agent counts as a failure.
hasFailuresOrSkipped(res) ==
    \E j \in 1..Len(res) : res[j].Status \in {statusFailed, statusSkipped}

hasFailures(res) == hasFailuresFrom(res, 1)

\* main after runAll returned: os.Exit(1) if hasFailures(results), else the
\* return from main (exit status 0).
MainExit ==
    /\ phase = "done"
    /\ ui.on => ui.events = <<>>
    /\ phase' = "exited"
    /\ exitStatus' = IF hasFailures(results) THEN 1 ELSE 0
    /\ UNCHANGED <<frontVars, callVars, resultAgent, resultVersions, ui, opts, uiEnabled, resolved, tasks, di, effConc, workerCount,
                   next, closed, wk, mu, locks, mutexes, results, writes, evlog, canceled,
                   lastEnd, lateChild>>

\* --------------------------------------------------- dashboard goroutine
\* Mutant: a finish event puts the row back to pending.
applyEventFinishPending(status, ev) ==
    CASE ev.Phase = phaseDetect ->
            IF ev.Status = statusSkipped /\ ev.Reason = reasonManualInstall
            THEN statusSkipped ELSE "pending"
      [] ev.Phase = phaseStart -> "updating"
      [] ev.Phase = phaseFinish -> "pending"
      [] OTHER -> status

\* applyEvent: row.status after the event, given row.status before it.
applyEvent(status, ev) ==
    CASE ev.Phase = phaseDetect ->
            IF ev.Status = statusSkipped /\ ev.Reason = reasonManualInstall
            THEN statusSkipped ELSE "pending"
      [] ev.Phase = phaseStart -> "updating"
      [] ev.Phase = phaseFinish -> ev.Status
      [] OTHER -> status

\* Mutant: a finish event leaves the reason of the detect event.
applyEventFieldsKeepReason(d, ev) ==
    CASE ev.Phase = phaseDetect -> [d EXCEPT !.reason = ev.Reason, !.before = ev.Before]
      [] ev.Phase = phaseStart -> [d EXCEPT !.before = ev.Before]
      [] ev.Phase = phaseFinish -> [d EXCEPT !.before = ev.Before, !.after = ev.After]
      [] OTHER -> d

\* applyEvent: row.reason, row.before and row.after after the event.
applyEventFields(d, ev) ==
    CASE ev.Phase = phaseDetect -> [d EXCEPT !.reason = ev.Reason, !.before = ev.Before]
      [] ev.Phase = phaseStart -> [d EXCEPT !.before = ev.Before]
      [] ev.Phase = phaseFinish ->
            [d EXCEPT !.before = ev.Before, !.after = ev.After, !.reason = ev.Reason]
      [] OTHER -> d

\* case ev, ok := <-events: the dashboard takes the oldest event and
\* applies it to its row.
UiConsume ==
    /\ ui.on
    /\ ui.events # <<>>
    /\ LET ev == Head(ui.events)
       IN  ui' = [ui EXCEPT !.events = Tail(@),
                            !.rows[ev.Index] = applyEvent(@, ev),
                            !.detail[ev.Index] = applyEventFields(@, ev)]
    /\ UNCHANGED <<frontVars, callVars, resultAgent, resultVersions, exitStatus, opts, uiEnabled, resolved,
                   tasks, phase, di, effConc, workerCount, next, closed, wk, mu, locks,
                   mutexes, results, writes, evlog, canceled, lastEnd, lateChild>>

\* ------------------------------------------------------------------- Spec
Next ==
    \/ BuildTasks
    \/ DetectSkipped
    \/ DetectDryRun
    \/ DetectPending
    \/ ReturnDryRun
    \/ StartWorkers
    \/ CloseTaskCh
    \/ WaitDone
    \/ Cancel
    \/ \E w \in Workers : Receive(w)
    \/ \E w \in Workers : WorkerExit(w)
    \/ \E w \in Workers : LockMu(w)
    \/ \E w \in Workers : LockNew(w)
    \/ \E w \in Workers : MLock(w)
    \/ \E w \in Workers : Prepare(w)
    \/ \E w \in Workers : CmdStart(w)
    \/ \E w \in Workers : CmdEnd(w)
    \/ \E w \in Workers : FinishStep(w)
    \/ \E w \in Workers : IndFinish(w)
    \/ \E w \in Workers : Unlock(w)
    \/ MainExit

Spec == Init /\ [][Next]_vars

\* ------------------------------------------------------ the run with its UI
\* runAllWithUI: the run with an events channel and the dashboard
\* goroutine, for the default flags and --concurrency 1, with or without
\* --dry-run.
InitUI ==
    /\ opts \in {o \in OptionSets : ~o.Serial /\ ~o.Safe /\ o.Concurrency \in {0, 1}
                                       /\ o.Timeout = 1}
    /\ uiEnabled = TRUE
    /\ resolved \in {r \in [Agents -> UNION {ResolveOutcomes(i) : i \in Agents}] :
                        \A i \in Agents : r[i] \in ResolveOutcomes(i)}
    /\ phase = "build"
    /\ RunInit
    /\ FrontAbstracted
    /\ uc = NoCall
    /\ ui = UiOn
    /\ CallsIdle

NextUI == Next \/ UiConsume

SpecUI == InitUI /\ [][NextUI]_vars

\* ------------------------------------------------- the run under fairness
\* The run without dashboard, for every pool size the flags can ask for
\* (--concurrency 0, 1 and 2), with and without --dry-run and with the
\* per-command timeout on or off.
InitLive ==
    /\ opts \in {o \in OptionSets : ~o.Serial /\ ~o.Safe /\ o.Concurrency >= 0}
    /\ uiEnabled = FALSE
    /\ resolved \in {r \in [Agents -> UNION {ResolveOutcomes(i) : i \in Agents}] :
                        \A i \in Agents : r[i] \in ResolveOutcomes(i)}
    /\ phase = "build"
    /\ RunInit
    /\ FrontAbstracted
    /\ uc = NoCall
    /\ ui = UiOff
    /\ CallsIdle

\* The steps of the main goroutine.
MainStep ==
    \/ BuildTasks \/ DetectSkipped \/ DetectDryRun \/ DetectPending \/ ReturnDryRun
    \/ StartWorkers \/ CloseTaskCh \/ WaitDone \/ MainExit

\* The steps of worker goroutine w; CmdEnd is the child ending, by its
\* own exit, by the deadline or by the cancellation.
WorkerStep(w) ==
    \/ Receive(w) \/ WorkerExit(w) \/ LockMu(w) \/ LockNew(w) \/ MLock(w) \/ Prepare(w)
    \/ CmdStart(w) \/ CmdEnd(w) \/ FinishStep(w) \/ IndFinish(w) \/ Unlock(w)

\* The Go scheduler runs every goroutine that can run, and every child
\* ends; the cancellation may or may not come.
Fairness == WF_vars(MainStep) /\ \A w \in Workers : WF_vars(WorkerStep(w))

SpecLive == InitLive /\ [][Next]_vars /\ Fairness

\* ---------------------------------------------- one update command call
\* parseFlags defaults: no --serial, --safe, --concurrency or --dry-run,
\* and a timeout of 15 minutes.
DefaultOptions ==
    [Serial |-> FALSE, Safe |-> FALSE, Concurrency |-> 0, DryRun |-> FALSE, Timeout |-> 1]

ZeroWork == [cmd |-> NilCmd, reason |-> "", method |-> "", pkg |-> 0]

\* All the variables of the run proper.
runVars ==
    <<opts, uiEnabled, resolved, tasks, phase, di, effConc, workerCount, next, closed, wk,
      mu, locks, mutexes, results, writes, evlog, canceled, lastEnd, lateChild, exitStatus,
      resultAgent, resultVersions, ui>>

\* The update commands resolution can produce for one agent.
UcCmds == {ResolvedCmd(k, 1) : k \in {KindNative, KindNpm, KindPnpm, KindBrew}}

\* The outputs of one attempt: at most MaxMarkers marker texts.
MaxMarkers == 2

UcOutputs == {o \in SUBSET Markers : Cardinality(o) <= MaxMarkers}

\* The statuses a child can exit with on its own: success, an ordinary
\* failure, and the two values runCmd also uses for its own codes.
ChildExitCodes == {0, 1, exitCodeTimeout, exitCodeCanceled}

\* How one runCmd call can end, with `outs` the outputs a child can write:
\* with the context already done no child starts; a child exits on its own
\* with one of ChildExitCodes (exitErr.ExitCode()), or is killed by the cancellation or by the deadline
\* (exit code -1), or exits with success as the kill is sent (ctx.Err()).
AttemptOutcomes(outs, ctxDone, timeout) ==
    IF ctxDone
    THEN {[code |-> exitCodeCanceled, out |-> OutEmpty, how |-> "notstarted"]}
    ELSE {[code |-> c, out |-> o, how |-> "exit"] : c \in ChildExitCodes, o \in outs}
         \cup {[code |-> c, out |-> o, how |-> "canceled"] :
                  c \in {exitCodeKilled, exitCodeCanceled}, o \in outs}
         \cup (IF timeout > 0
               THEN {[code |-> exitCodeTimeout, out |-> OutEmpty, how |-> "expired"]}
                    \cup {[code |-> c, out |-> o, how |-> "timeout"] :
                             c \in {exitCodeKilled, exitCodeTimeout}, o \in outs}
               ELSE {})

\* time.Since(start) of one runCmd call, in model units.
Durations == {1, 2}

\* The singleton task of the call's command.
UcTask(cmd) == [kind |-> KindNative, cmd |-> cmd, agents |-> <<1>>]

InitUpdateCmd ==
    /\ opts = DefaultOptions
    /\ uiEnabled = FALSE
    /\ resolved = [i \in Agents |-> ZeroWork]
    /\ phase = "call"
    /\ RunInit
    /\ FrontAbstracted
    /\ ui = UiOff
    /\ CallsIdle
    /\ uc \in [cmd : UcCmds, timeout : {0, 1}, ctxDone : BOOLEAN,
               l : {[IdleWorker EXCEPT !.pc = "run", !.attempt = 1]},
               attempts : {<<>>}, durs : {<<>>}, duration : {0}, res : {ZeroResult}]

\* One runCmd call inside runUpdateCmd, and what runUpdateCmd does with
\* its outcome: return, or the npm retry.
UcRunCmd ==
    /\ uc.l.pc = "run"
    /\ \E o \in AttemptOutcomes(UcOutputs, uc.ctxDone, uc.timeout), d \in Durations :
          uc' = [uc EXCEPT !.l = AfterRunCmd(uc.l, UcTask(uc.cmd), uc.cmd, o.code, o.out),
                           !.attempts = Append(@, o),
                           !.durs = Append(@, d),
                           !.duration = IF uc.l.attempt = 1 THEN d ELSE @ + d,
                           !.ctxDone = @ \/ o.how = "canceled"]
    /\ UNCHANGED <<runVars, frontVars, cl, once, nm, fb>>

\* runTask after runUpdateCmd returned: the result of the agent.
UcSetResult ==
    /\ uc.l.pc = "finish"
    /\ \E before, after \in Versions :
          uc' = [uc EXCEPT !.res = FinalResult(uc.l.code, uc.cmd, uc.l.out, before, after),
                           !.l.pc = "done"]
    /\ UNCHANGED <<runVars, frontVars, cl, once, nm, fb>>

NextUpdateCmd == UcRunCmd \/ UcSetResult

SpecUpdateCmd == InitUpdateCmd /\ [][NextUpdateCmd]_vars

\* --------------------------------------------------------- the resolve loop
KindsOf(agent) == {agent.Strategies[j].Kind : j \in 1..Len(agent.Strategies)}

PackagesOf(agent, kind) ==
    {agent.Strategies[j].Package :
        j \in {k \in 1..Len(agent.Strategies) : agent.Strategies[k].Kind = kind}}

ExtensionsOf(agent) ==
    {agent.Strategies[j].ExtensionID :
        j \in {k \in 1..Len(agent.Strategies) : agent.Strategies[k].Kind = KindVSCode}}

\* What the machine can hold about one agent: which of npm, pnpm, brew, uv
\* and python3 are installed and whether an editor CLI is (code), whether
\* the binary is on the search path, whether its directory is npm's (dn) or
\* pnpm's (dp) global bin dir and whether npm's is the longer path (longNpm),
\* whether the binary is a file in npm's (bn) or pnpm's (bp) global bin dir,
\* whether the agent's package is in npm's (ln) or pnpm's (lp) global
\* list, and whether its formula, pip package, uv tool and extension are
\* installed.
RawFacts ==
    [npm : BOOLEAN, pnpm : BOOLEAN, brew : BOOLEAN, uv : BOOLEAN, python : BOOLEAN,
     code : BOOLEAN, onPath : BOOLEAN, dn : BOOLEAN, dp : BOOLEAN, longNpm : BOOLEAN,
     bn : BOOLEAN, bp : BOOLEAN, ln : BOOLEAN, lp : BOOLEAN,
     fbrew : BOOLEAN, fpip : BOOLEAN, fuv : BOOLEAN, fext : BOOLEAN]

\* The facts that matter for `agent`: a manager none of its strategies
\* names is left absent, an absent manager has no bin dir and lists
\* nothing, and a bin dir that is the directory of the binary's path
\* holds the binary.
FactsFor(agent) ==
    {f \in RawFacts :
        /\ (f.npm \/ f.pnpm) => KindNpm \in KindsOf(agent)
        /\ f.brew => KindBrew \in KindsOf(agent)
        /\ f.uv => KindUv \in KindsOf(agent)
        /\ f.python => KindPip \in KindsOf(agent)
        /\ f.code => KindVSCode \in KindsOf(agent)
        /\ f.onPath => agent.Binary # ""
        /\ f.dn => (f.onPath /\ f.npm /\ f.bn)
        /\ f.dp => (f.onPath /\ f.pnpm /\ f.bp)
        /\ f.longNpm => (f.dn /\ f.dp)
        /\ f.bn => (f.npm /\ agent.Binary # "")
        /\ f.bp => (f.pnpm /\ agent.Binary # "")
        /\ f.ln => f.npm
        /\ f.lp => f.pnpm
        /\ f.fbrew => f.brew
        /\ f.fpip => f.python
        /\ f.fuv => f.uv
        /\ f.fext => f.code}

Only(c, S) == IF c THEN S ELSE {}

\* The envState of newEnv on a machine with facts f about `agent` (yarn and
\* bun are not installed), with every lazily loaded list as its load
\* function leaves it.
EnvOf(agent, f) ==
    [hasNpm |-> f.npm, hasPnpm |-> f.pnpm, hasYarn |-> FALSE, hasBun |-> FALSE,
     hasBrew |-> f.brew, hasUv |-> f.uv, hasPython |-> f.python,
     codeCmd |-> IF f.code THEN "code" ELSE "",
     path |-> Only(f.onPath, {agent.Binary}),
     binDirOf |-> [k \in AllKinds |->
                     IF k = KindNpm THEN Only(f.dn, {agent.Binary})
                     ELSE IF k = KindPnpm THEN Only(f.dp, {agent.Binary}) ELSE {}],
     binDirLen |-> [k \in AllKinds |-> IF k = KindNpm /\ f.longNpm THEN 2 ELSE 1],
     nodeBin |-> [k \in AllKinds |->
                     IF k = KindNpm THEN Only(f.bn, {agent.Binary})
                     ELSE IF k = KindPnpm THEN Only(f.bp, {agent.Binary}) ELSE {}],
     nodePkgs |-> [k \in AllKinds |->
                     IF k = KindNpm THEN Only(f.ln, PackagesOf(agent, KindNpm))
                     ELSE IF k = KindPnpm THEN Only(f.lp, PackagesOf(agent, KindPnpm)) ELSE {}],
     brewFormulae |-> Only(f.fbrew, PackagesOf(agent, KindBrew)),
     pipPkgs |-> Only(f.fpip, PackagesOf(agent, KindPip)),
     uvTools |-> Only(f.fuv, PackagesOf(agent, KindUv)),
     codeExts |-> Only(f.fext, ExtensionsOf(agent))]

\* The selections of the model: one catalog agent, at one or more indexes,
\* and amp at the others.
Selections ==
    {s \in [Agents -> Catalog] :
        \E k \in Agents : \A i \in Agents : s[i].Name \in {s[k].Name, "amp"}}

\* The agent of a selection that the facts of the machine are about.
Subject(s) ==
    IF \E i \in Agents : s[i].Name # "amp"
    THEN s[CHOOSE i \in Agents : s[i].Name # "amp"]
    ELSE s[1]

InitFront ==
    /\ opts = DefaultOptions
    /\ uiEnabled = FALSE
    /\ selected \in Selections
    /\ env \in {EnvOf(Subject(selected), f) : f \in FactsFor(Subject(selected))}
    /\ binPathCache = [b \in BinaryNames |-> CacheUnset]
    /\ ri = 1
    /\ resolutions = [i \in Agents |-> <<>>]
    /\ resolved = [i \in Agents |-> ZeroWork]
    /\ phase = "resolve"
    /\ RunInit
    /\ uc = NoCall
    /\ ui = UiOff
    /\ CallsIdle

\* One iteration of `for i, agent := range selected`: resolveUpdate and
\* works[i].
ResolveStep ==
    /\ phase = "resolve" /\ ri <= NumAgents
    /\ LET r == resolveUpdate(selected[ri], env, binPathCache)
       IN  /\ resolved' = [resolved EXCEPT ![ri] = WorkOf(selected[ri], r)]
           /\ resolutions' = [resolutions EXCEPT ![ri] = <<r>>]
    /\ binPathCache' = CacheAfter(env, binPathCache, selected[ri].Binary)
    /\ ri' = ri + 1
    /\ phase' = IF ri = NumAgents THEN "build" ELSE "resolve"
    /\ UNCHANGED <<selected, env, callVars, resultAgent, resultVersions, ui, opts, uiEnabled, tasks, di, effConc, workerCount, next,
                   closed, wk, mu, locks, mutexes, results, writes, evlog, canceled, lastEnd,
                   lateChild, exitStatus>>

\* resolveUpdate applied once more to an agent, against the probe as the
\* loop left it.
ResolveAgain(i) ==
    /\ phase = "build"
    /\ Len(resolutions[i]) = 1
    /\ resolutions' = [resolutions EXCEPT
          ![i] = Append(@, resolveUpdate(selected[i], env, binPathCache))]
    /\ binPathCache' = CacheAfter(env, binPathCache, selected[i].Binary)
    /\ UNCHANGED <<selected, env, ri, callVars, runVars>>

\* The resolve loop, the task building and the detect loop of a run that
\* is not a dry run.
NextFront ==
    \/ ResolveStep
    \/ \E i \in Agents : ResolveAgain(i)
    \/ BuildTasks
    \/ DetectSkipped
    \/ DetectPending

SpecFront == InitFront /\ [][NextFront]_vars

\* ------------------------------------------------- catalogs other than Default
\* The package names a catalog entry can use.
MaxPackages == 2

\* The binary of the agent selected at index i.
BinaryAt(i) == IF i = 1 THEN "gemini" ELSE IF i = 2 THEN "cline" ELSE "copilot"

\* Agents as the type agents.Agent allows them: an npm strategy and a pnpm
\* strategy, each with a package name of its own (equal names are what
\* nodePackageStrategies gives).
CatalogAgents(i) ==
    {[Name |-> BinaryAt(i), Binary |-> BinaryAt(i),
      Strategies |-> <<Strategy(KindNpm, p, ""), Strategy(KindPnpm, q, "")>>] :
        p, q \in 1..MaxPackages}

\* The facts of a machine about the selected agents together: which of
\* npm and pnpm are installed, whether the binaries are on the search
\* path and are files in npm's (bn) or pnpm's (bp) global bin dir, and
\* whether the packages of the npm (ln) or pnpm (lp) strategies are in
\* that manager's global list.
CatalogFacts ==
    {f \in [npm : BOOLEAN, pnpm : BOOLEAN, onPath : BOOLEAN, bn : BOOLEAN, bp : BOOLEAN,
            ln : BOOLEAN, lp : BOOLEAN] :
        /\ f.bn => f.npm
        /\ f.bp => f.pnpm
        /\ f.ln => f.npm
        /\ f.lp => f.pnpm}

\* The envState of newEnv on such a machine; the binaries are in no
\* manager's bin dir as a directory of their path.
CatalogEnv(sel, f) ==
    LET bins == {sel[i].Binary : i \in Agents}
    IN  [hasNpm |-> f.npm, hasPnpm |-> f.pnpm, hasYarn |-> FALSE, hasBun |-> FALSE,
         hasBrew |-> FALSE, hasUv |-> FALSE, hasPython |-> FALSE,
         codeCmd |-> "",
         path |-> Only(f.onPath, bins),
         binDirOf |-> [k \in AllKinds |-> {}],
         binDirLen |-> [k \in AllKinds |-> 1],
         nodeBin |-> [k \in AllKinds |->
                         IF k = KindNpm THEN Only(f.bn, bins)
                         ELSE IF k = KindPnpm THEN Only(f.bp, bins) ELSE {}],
         nodePkgs |-> [k \in AllKinds |->
                         IF k = KindNpm
                         THEN Only(f.ln, UNION {PackagesOf(sel[i], KindNpm) : i \in Agents})
                         ELSE IF k = KindPnpm
                         THEN Only(f.lp, UNION {PackagesOf(sel[i], KindPnpm) : i \in Agents})
                         ELSE {}],
         brewFormulae |-> {}, pipPkgs |-> {}, uvTools |-> {}, codeExts |-> {}]

InitCatalog ==
    /\ opts = DefaultOptions
    /\ uiEnabled = FALSE
    /\ selected \in {s \in [Agents -> UNION {CatalogAgents(i) : i \in Agents}] :
                        \A i \in Agents : s[i] \in CatalogAgents(i)}
    /\ env \in {CatalogEnv(selected, f) : f \in CatalogFacts}
    /\ binPathCache = [b \in BinaryNames |-> CacheUnset]
    /\ ri = 1
    /\ resolutions = [i \in Agents |-> <<>>]
    /\ resolved = [i \in Agents |-> ZeroWork]
    /\ phase = "resolve"
    /\ RunInit
    /\ uc = NoCall
    /\ ui = UiOff
    /\ CallsIdle

\* The resolve loop and the task building.
NextCatalog == ResolveStep \/ BuildTasks

SpecCatalog == InitCatalog /\ [][NextCatalog]_vars

\* ------------------------------------------------------------ task building
\* The works the task builder can be given: any resolved kind, with a
\* package name that can be shared by two agents or blank.
BatchWorks ==
    {[cmd |-> NilCmd, reason |-> reasonMissing, method |-> "", pkg |-> 0]}
    \cup {[cmd |-> ResolvedCmd(k, p), reason |-> "", method |-> k,
           pkg |-> IF isNodeKind(k) THEN p ELSE 0] :
             k \in {KindNative, KindNpm, KindPnpm, KindVSCode}, p \in 0..NumAgents}

InitBatch ==
    /\ opts = DefaultOptions
    /\ uiEnabled = FALSE
    /\ resolved \in [Agents -> BatchWorks]
    /\ phase = "build"
    /\ RunInit
    /\ FrontAbstracted
    /\ uc = NoCall
    /\ ui = UiOff
    /\ CallsIdle

NextBatch == BuildTasks

SpecBatch == InitBatch /\ [][NextBatch]_vars

\* -------------------------------------------- one nodeManagerForBinary call
\* Everything but the call under study is idle.
RunIdle ==
    /\ opts = DefaultOptions
    /\ uiEnabled = FALSE
    /\ resolved = [i \in Agents |-> ZeroWork]
    /\ phase = "call"
    /\ RunInit
    /\ FrontAbstracted
    /\ uc = NoCall
    /\ ui = UiOff

\* The longest path of a global bin directory, in characters.
MaxDirLen == 2

\* What the probe holds about one node manager: absent (its bin dir is
\* then empty), or present with a bin dir that is empty, the same path as
\* the directory of the binary ("bin"), the same path as the directory of
\* the file the binary links to ("link"), or another directory.
ManagerStates ==
    {[present |-> FALSE, dir |-> "", len |-> 0], [present |-> TRUE, dir |-> "", len |-> 0]}
    \cup [present : {TRUE}, dir : {"bin", "link", "other"}, len : 1..MaxDirLen]

\* samePath(dir, binDir) || (resolvedBinDir != "" && samePath(dir, resolvedBinDir))
DirMatches(m, linked) == m.dir = "bin" \/ (linked /\ m.dir = "link")

\* The fields of envState the call reads.
LookupEnv(l) ==
    [hasNpm |-> l.mgr[KindNpm].present, hasPnpm |-> l.mgr[KindPnpm].present,
     hasYarn |-> l.mgr[KindYarn].present, hasBun |-> l.mgr[KindBun].present,
     binDirOf |-> [k \in NodeKinds |-> IF DirMatches(l.mgr[k], l.linked) THEN {"binary"} ELSE {}],
     binDirLen |-> [k \in NodeKinds |-> l.mgr[k].len]]

InitNodeBin ==
    /\ RunIdle
    /\ cl = NoCleanup /\ once = NoOnce /\ fb = NoRetryPass
    /\ nm \in [mgr : [NodeKinds -> ManagerStates], found : BOOLEAN, linked : BOOLEAN,
                pc : {"call"}, result : {""}]

NodeManagerForBinaryCall ==
    /\ nm.pc = "call"
    /\ nm' = [nm EXCEPT
          !.result = nodeManagerForBinary(LookupEnv(nm), IF nm.found THEN "binary" ELSE ""),
          !.pc = "done"]
    /\ UNCHANGED <<runVars, frontVars, uc, cl, once, fb>>

NextNodeBin == NodeManagerForBinaryCall

SpecNodeBin == InitNodeBin /\ [][NextNodeBin]_vars

\* ------------------------------------------ one cleanupNpmENotEmpty call
\* File names, spelled in characters: ".", "..", p, q, pq and the dotted
\* names .p, .q, .pq and ..p.
Names ==
    {<<".">>, <<".", ".">>, <<"p">>, <<"q">>, <<"p", "q">>,
     <<".", "p">>, <<".", "q">>, <<".", "p", "q">>, <<".", ".", "p">>}

\* Directories as written: lists of elements, not all of them clean.
DirSpellings == {<<>>, <<"a">>, <<"b">>, <<"a", "..", "b">>, <<".", "a">>}

\* The path names the rename lines of an npm error can carry, and the
\* empty string when a line is missing.
Paths == {EmptyPath} \cup [abs : BOOLEAN, dir : DirSpellings, base : Names]

\* filepath.Clean on the elements of a directory.
RECURSIVE CleanFrom(_, _, _, _)
CleanFrom(abs, elems, j, acc) ==
    IF j > Len(elems) THEN acc
    ELSE IF elems[j] = "." THEN CleanFrom(abs, elems, j + 1, acc)
    ELSE IF elems[j] = ".."
    THEN (IF Len(acc) > 0 /\ acc[Len(acc)] # ".."
          THEN CleanFrom(abs, elems, j + 1, SubSeq(acc, 1, Len(acc) - 1))
          ELSE IF abs THEN CleanFrom(abs, elems, j + 1, acc)
          ELSE CleanFrom(abs, elems, j + 1, Append(acc, "..")))
    ELSE CleanFrom(abs, elems, j + 1, Append(acc, elems[j]))

\* filepath.IsAbs, filepath.Dir (the cleaned parent) and filepath.Base.
IsAbs(p) == p.abs

Dir(p) == [abs |-> p.abs, elems |-> CleanFrom(p.abs, p.dir, 1, <<>>)]

Base(p) == p.base

\* strings.HasPrefix
HasPrefix(str, prefix) ==
    Len(prefix) <= Len(str) /\ SubSeq(str, 1, Len(prefix)) = prefix

\* Mutant: the parent directories are not compared.
isSafeAcrossDirs(path, dest) ==
    /\ path # EmptyPath /\ dest # EmptyPath
    /\ IsAbs(dest) /\ IsAbs(path)
    /\ Base(dest) \notin {<<".">>, <<".", ".">>} /\ Base(path) \notin {<<".">>, <<".", ".">>}
    /\ HasPrefix(Base(dest), <<".">> \o Base(path))

isSafeNpmRenameTarget(path, dest) ==
    IF path = EmptyPath \/ dest = EmptyPath THEN FALSE
    ELSE IF ~IsAbs(dest) \/ ~IsAbs(path) THEN FALSE
    ELSE IF Dir(path) # Dir(dest) THEN FALSE
    ELSE IF Base(dest) \in {<<".">>, <<".", ".">>} \/ Base(path) \in {<<".">>, <<".", ".">>}
    THEN FALSE
    ELSE IF ~HasPrefix(Base(dest), <<".">> \o Base(path)) THEN FALSE
    ELSE TRUE

InitCleanup ==
    /\ RunIdle
    /\ once = NoOnce /\ nm = NoLookup /\ fb = NoRetryPass
    /\ cl \in [path : Paths, dest : Paths, destExists : BOOLEAN, removeFails : BOOLEAN,
                pc : {"cleanup"}, removed : {{}}, msg : {""}, retried : {FALSE}]

\* cleanupNpmENotEmpty on an output whose rename lines give (path, dest):
\* os.RemoveAll(dest) is called when the pair is safe and dest exists.
CleanupNpmENotEmpty ==
    /\ cl.pc = "cleanup"
    /\ cl' = [cl EXCEPT
          !.removed = IF isSafeNpmRenameTarget(cl.path, cl.dest) /\ cl.destExists
                      THEN {cl.dest} ELSE {},
          !.msg = IF ~isSafeNpmRenameTarget(cl.path, cl.dest) \/ ~cl.destExists THEN ""
                  ELSE IF cl.removeFails THEN "failed to remove stale npm temp dir"
                  ELSE "removed stale npm temp dir",
          !.pc = "retry"]
    /\ UNCHANGED <<runVars, frontVars, uc, once, nm, fb>>

\* The second runCmd call of runUpdateCmd, which follows the cleanup.
RetryAfterCleanup ==
    /\ cl.pc = "retry"
    /\ cl' = [cl EXCEPT !.retried = TRUE, !.pc = "done"]
    /\ UNCHANGED <<runVars, frontVars, uc, once, nm, fb>>

NextCleanup == CleanupNpmENotEmpty \/ RetryAfterCleanup

SpecCleanup == InitCleanup /\ [][NextCleanup]_vars

\* ------------------------------- one individual retry after a failed batch
\* A text is the sequence of its runs of characters: "\n" and " " are
\* white space, every other run is printed text.
IsSpace(c) == c \in {"\n", " "}

\* strings.TrimRight(text, "\n")
RECURSIVE TrimRightNewlines(_)
TrimRightNewlines(text) ==
    IF text # <<>> /\ text[Len(text)] = "\n"
    THEN TrimRightNewlines(SubSeq(text, 1, Len(text) - 1))
    ELSE text

RECURSIVE TrimRightSpace(_)
TrimRightSpace(text) ==
    IF text # <<>> /\ IsSpace(text[Len(text)])
    THEN TrimRightSpace(SubSeq(text, 1, Len(text) - 1))
    ELSE text

RECURSIVE TrimLeftSpace(_)
TrimLeftSpace(text) ==
    IF text # <<>> /\ IsSpace(text[1]) THEN TrimLeftSpace(Tail(text)) ELSE text

\* strings.TrimSpace(text)
TrimSpace(text) == TrimLeftSpace(TrimRightSpace(text))

\* appendHint(detail, hint)
appendHint(detail, hint) ==
    IF TrimSpace(hint) = <<>> THEN detail
    ELSE IF TrimSpace(detail) = <<>> THEN <<"hint: ">> \o TrimSpace(hint)
    ELSE detail \o <<"; hint: ">> \o TrimSpace(hint)

RetryHint == "batch update failed; retrying individually"
RetryNote == "(uca) retrying individually after batch failure"

\* res.Log of an agent retried individually: the batch output, the note
\* or a newline, and the agent's own output.
IndividualLog(out, indOut) ==
    LET log == TrimRightNewlines(out)
        joined == IF TrimSpace(log) # <<>> /\ TrimSpace(indOut) # <<>>
                  THEN log \o <<"\n", "\n", RetryNote, "\n">>
                  ELSE IF TrimSpace(log) # <<>> THEN log \o <<"\n">>
                  ELSE log
    IN  joined \o TrimSpace(indOut)

\* The outputs of the failed batch command and of an individual retry.
BatchTexts == {<<>>, <<"\n">>, <<" ">>, <<"batch">>, <<"batch", "\n">>, <<"\n", "batch">>}
IndTexts == {<<>>, <<"\n">>, <<"single">>, <<"single", "\n">>, <<" ", "single">>}

InitRetryPass ==
    /\ RunIdle
    /\ cl = NoCleanup /\ once = NoOnce /\ nm = NoLookup
    /\ fb \in [pc : {"call"}, out : BatchTexts,
                explain : {<<>>, <<"matched by bin dir">>},
                indOut : {<<>>}, indCode : {0}, log : {<<>>}]

\* The body of the fallback loop for one agent, up to res.Log.
RetryPass ==
    /\ fb.pc = "call"
    /\ \E indOut \in IndTexts, indCode \in {0, 1} :
          fb' = [fb EXCEPT !.pc = "done",
                           !.explain = appendHint(@, <<RetryHint>>),
                           !.indOut = indOut,
                           !.indCode = indCode,
                           !.log = IndividualLog(fb.out, indOut)]
    /\ UNCHANGED <<runVars, frontVars, uc, cl, once, nm>>

NextRetryPass == RetryPass

SpecRetryPass == InitRetryPass /\ [][NextRetryPass]_vars

\* ------------------------------------------------ one lazily loaded value
\* How often one goroutine queries the value.
MaxCalls == 2

\* What the listing command can report when it is run.
LoadResults == {"list A", "list B"}

\* The field while its load function runs: reset, not yet filled.
EmptyValue == "empty"

InitOnce ==
    /\ RunIdle
    /\ cl = NoCleanup /\ nm = NoLookup /\ fb = NoRetryPass
    /\ once = [NoOnce EXCEPT
          !.callers = [c \in OnceCallers |-> [pc |-> "start", obs |-> ZeroValue, calls |-> 0]]]

OnceStep(c, callerPc) == [once EXCEPT !.callers[c].pc = callerPc]

\* Mutant: the load function runs whatever the done flag says.
DoSlowRunsAlways(done) == TRUE

\* doSlow, holding the mutex of the Once: f runs if the flag is still unset.
DoSlowRuns(done) == ~done

\* e.npmPkgOnce.Do(e.loadNpmPkgs): the fast path reads the done flag.
OnceDo(c) ==
    /\ once.callers[c].pc = "start"
    /\ once' = OnceStep(c, IF once.done THEN "read" ELSE "slow")
    /\ UNCHANGED <<runVars, frontVars, uc, cl, nm, fb>>

\* doSlow: o.m.Lock(), which waits while another caller holds the mutex.
OnceLock(c) ==
    /\ once.callers[c].pc = "slow"
    /\ once.m = 0
    /\ once' = [OnceStep(c, "locked") EXCEPT !.m = c]
    /\ UNCHANGED <<runVars, frontVars, uc, cl, nm, fb>>

\* doSlow: the second look at the flag; the load function begins by
\* resetting the field.
OnceCheck(c) ==
    /\ once.callers[c].pc = "locked"
    /\ once' = IF DoSlowRuns(once.done)
                THEN [OnceStep(c, "loading") EXCEPT !.value = EmptyValue, !.loads = @ + 1]
                ELSE OnceStep(c, "unlock")
    /\ UNCHANGED <<runVars, frontVars, uc, cl, nm, fb>>

\* The load function runs the listing command and fills the field.
OnceLoad(c) ==
    /\ once.callers[c].pc = "loading"
    /\ \E v \in LoadResults : once' = [OnceStep(c, "loaded") EXCEPT !.value = v]
    /\ UNCHANGED <<runVars, frontVars, uc, cl, nm, fb>>

\* The deferred store of the done flag.
OnceStore(c) ==
    /\ once.callers[c].pc = "loaded"
    /\ once' = [OnceStep(c, "unlock") EXCEPT !.done = TRUE]
    /\ UNCHANGED <<runVars, frontVars, uc, cl, nm, fb>>

\* The deferred o.m.Unlock(); Do returns.
OnceUnlock(c) ==
    /\ once.callers[c].pc = "unlock"
    /\ once' = [OnceStep(c, "read") EXCEPT !.m = 0]
    /\ UNCHANGED <<runVars, frontVars, uc, cl, nm, fb>>

\* return e.npmPkgs[pkg]: the caller reads the field.
OnceRead(c) ==
    /\ once.callers[c].pc = "read"
    /\ once' = [once EXCEPT !.callers[c] =
          [pc |-> "returned", obs |-> once.value, calls |-> @.calls + 1]]
    /\ UNCHANGED <<runVars, frontVars, uc, cl, nm, fb>>

\* The goroutine queries the value again.
OnceAgain(c) ==
    /\ once.callers[c].pc = "returned"
    /\ once.callers[c].calls < MaxCalls
    /\ once' = OnceStep(c, "start")
    /\ UNCHANGED <<runVars, frontVars, uc, cl, nm, fb>>

NextOnce ==
    \E c \in OnceCallers :
        \/ OnceDo(c)
        \/ OnceLock(c)
        \/ OnceCheck(c)
        \/ OnceLoad(c)
        \/ OnceStore(c)
        \/ OnceUnlock(c)
        \/ OnceRead(c)
        \/ OnceAgain(c)

SpecOnce == InitOnce /\ [][NextOnce]_vars

\* ================================================================ claims
\* A worker is between acquiring and releasing the lock of its task.
InCritical(w) == wk[w].pc \in {"prepare", "run", "wait", "finish", "ind_finish", "unlock"}

Holders(kind) == {w \in Workers : InCritical(w) /\ Task(w).kind = kind}

\* The workers whose child update process is in flight.
Executing == {w \in Workers : wk[w].pc = "wait"}

\* C1: for every lock-requiring kind, at most one worker is between
\* acquiring and releasing that kind's lock, so two tasks of one kind never
\* have their commands running at the same time.
C1_MutualExclusion ==
    \A k \in AllKinds : shouldLockKind(k) => Cardinality(Holders(k)) <= 1

\* C1 witness: a worker's command is in flight while another worker with a
\* task of the same kind waits in m.Lock().
C1_Witness ==
    \E w, v \in Workers :
        /\ w # v
        /\ wk[w].pc = "wait"
        /\ wk[v].pc = "lock_m"
        /\ Task(v).kind = Task(w).kind

\* C2: the lock of one kind never stands in the way of a worker that wants
\* the lock of another kind: a worker in m.Lock() can take the mutex as
\* soon as no worker holds the lock of its own kind, no worker blocks while
\* it holds l.mu, and l.mu can always be taken when it is free.
C2_IndependentKinds ==
    /\ \A w \in Workers :
          (wk[w].pc = "lock_m" /\ Holders(Task(w).kind) = {}) => ENABLED MLock(w)
    /\ \A w \in Workers : (wk[w].pc = "lock_mu" /\ mu = 0) => ENABLED LockMu(w)
    /\ \A w \in Workers : mu = w => (wk[w].pc = "lock_new" /\ ENABLED LockNew(w))

\* C2 witness: the commands of two tasks of different lock-requiring kinds
\* are in flight at the same time.
C2_Witness ==
    \E w, v \in Workers :
        /\ wk[w].pc = "wait" /\ wk[v].pc = "wait"
        /\ Task(w).kind # Task(v).kind
        /\ shouldLockKind(Task(w).kind) /\ shouldLockKind(Task(v).kind)

\* An explicit limit is a positive --concurrency value (0 means no limit).
ExplicitLimit(o) == o.Concurrency > 0

\* C3: effectiveConcurrency is 1 in serial mode, 1 in safe mode without an
\* explicit limit, the explicit limit if one is given, otherwise the number
\* of tasks, and 1 without tasks.
C3_EffectiveConcurrency ==
    phase \in {"feed", "wait", "done"} /\ ~opts.DryRun =>
        effConc = IF opts.Serial THEN 1
                  ELSE IF opts.Safe /\ ~ExplicitLimit(opts) THEN 1
                  ELSE IF ExplicitLimit(opts) THEN opts.Concurrency
                  ELSE IF Len(tasks) = 0 THEN 1
                  ELSE Len(tasks)

\* The workers that are running a task.
Running == {w \in Workers : wk[w].pc \notin {"none", "idle", "exited"}}

\* C4: the number of tasks being executed never exceeds the effective pool
\* size: 1 in serial mode or in safe mode without an explicit limit, N with
\* --concurrency N, and never more than the number of tasks.
C4_PoolBound ==
    /\ (opts.Serial \/ (opts.Safe /\ ~ExplicitLimit(opts))) => Cardinality(Running) <= 1
    /\ (ExplicitLimit(opts) => Cardinality(Running) <= opts.Concurrency)
    /\ Cardinality(Running) <= Len(tasks)

\* C5: with an event channel, the events of every agent are sent in the
\* order detect, [start], finish: one detect, at most one start, one finish,
\* and when the run returns every agent has its detect and its finish.
C5_PhaseOrder ==
    uiEnabled =>
        \A i \in Agents :
            /\ evlog[i] \in {<<>>, <<phaseDetect>>, <<phaseDetect, phaseStart>>,
                             <<phaseDetect, phaseFinish>>,
                             <<phaseDetect, phaseStart, phaseFinish>>}
            /\ phase = "done" =>
                  evlog[i] \in {<<phaseDetect, phaseFinish>>,
                                <<phaseDetect, phaseStart, phaseFinish>>}

\* C5 witness: a batch failed, its first agent was retried individually and
\* has its three events, and the second agent's retry is still to come.
C5_Witness ==
    \E w \in Workers :
        /\ uiEnabled
        /\ wk[w].ind /\ wk[w].fi = 2 /\ wk[w].pc = "run"
        /\ evlog[Task(w).agents[1]] = <<phaseDetect, phaseStart, phaseFinish>>
        /\ evlog[Task(w).agents[2]] = <<phaseDetect, phaseStart>>

\* The agents whose task a worker has taken from the channel.
Begun == UNION {SeqRange(tasks[t].agents) : t \in 1..(next - 1)}

\* C6: a start event is sent only for an agent with an update command, not
\* in dry-run mode, and only once a worker has begun the agent's task.
C6_StartOnlyWhenExecuting ==
    \A i \in Agents :
        phaseStart \in SeqRange(evlog[i]) =>
            /\ ~IsNil(resolved[i].cmd)
            /\ ~opts.DryRun
            /\ i \in Begun

\* C6 witness: one agent has its start event while another agent was
\* skipped and has none.
C6_Witness ==
    \E i, j \in Agents :
        /\ evlog[i] = <<phaseDetect, phaseStart>>
        /\ IsNil(resolved[j].cmd)
        /\ evlog[j] = <<phaseDetect, phaseFinish>>

\* C7: no slot of results is assigned twice, and when the run returns every
\* slot has been assigned once.
C7_WriteOnce ==
    \A i \in Agents :
        /\ writes[i] <= 1
        /\ phase = "done" => writes[i] = 1

\* C7 witness: a run with a batch of two agents that failed and was split
\* has returned, every slot written once.
C7_Witness ==
    /\ phase = "done" /\ ~opts.DryRun
    /\ \E t \in 1..Len(tasks) : Len(tasks[t].agents) > 1
    /\ \E i, j \in Agents : results[i].Status = statusFailed /\ results[j].Status = statusUpdated
    /\ \A i \in Agents : writes[i] = 1

\* C8: a batch of two or more agents whose command failed never takes the
\* common path; each of its agents gets the result of its own singleton
\* command: updated or unchanged if that command exited 0, failed otherwise.
C8_BatchFallback ==
    \A w \in Workers :
        /\ (wk[w].pc = "finish" /\ Len(Task(w).agents) > 1) => wk[w].code = 0
        /\ (wk[w].ind /\ wk[w].fi > 1 /\ wk[w].pc \in {"run", "unlock"} /\ wk[w].attempt = 1) =>
              LET i == Task(w).agents[wk[w].fi - 1]
              IN  /\ writes[i] = 1
                  /\ (wk[w].code = 0 => results[i].Status \in {statusUpdated, statusUnchanged})
                  /\ (wk[w].code # 0 => results[i].Status = statusFailed)

\* C8 witness: after a failed batch the first agent's own command exited 0
\* and it is updated, the second agent's own command failed and it alone is
\* failed.
C8_Witness ==
    \E w \in Workers :
        /\ wk[w].ind /\ wk[w].pc = "unlock" /\ wk[w].code = 1
        /\ results[Task(w).agents[1]].Status = statusUpdated
        /\ results[Task(w).agents[2]].Status = statusFailed

\* C9: an agent whose command was terminated for exceeding the timeout
\* ends failed with reason "timeout".
C9_TimeoutReason ==
    \A i \in Agents :
        (lastEnd[i] = "timeout" /\ writes[i] > 0) =>
            (results[i].Status = statusFailed /\ results[i].Reason = "timeout")

\* C10: after cancellation no child update process is started, and an
\* agent whose command was in flight and terminated by the cancellation, or
\* was not started because of it, ends failed with reason "canceled".
C10_CanceledReason ==
    /\ ~lateChild
    /\ \A i \in Agents :
          (lastEnd[i] \in {"canceled", "notstarted"} /\ writes[i] > 0) =>
              (results[i].Status = statusFailed /\ results[i].Reason = "canceled")
\* C11: the process exits only once the run has returned, and its exit
\* status is non-zero exactly when some agent's final result is failed;
\* skipped, unchanged and updated (dry-run included) never make it non-zero.
C11_ExitStatus ==
    /\ phase # "exited" => exitStatus = -1
    /\ phase = "exited" =>
          /\ exitStatus \in {0, 1}
          /\ (exitStatus # 0 <=> \E i \in Agents : results[i].Status = statusFailed)

\* C11 witness: the process exited non-zero with one agent failed and
\* another one skipped.
C11_Witness ==
    /\ phase = "exited" /\ exitStatus = 1
    /\ \E i, j \in Agents :
          results[i].Status = statusFailed /\ results[j].Status = statusSkipped

\* The task an agent belongs to (0 when it has none).
TaskOf(i) ==
    IF \E t \in 1..Len(tasks) : i \in SeqRange(tasks[t].agents)
    THEN CHOOSE t \in 1..Len(tasks) : i \in SeqRange(tasks[t].agents)
    ELSE 0

\* A failure aborts nothing: while tasks are queued an idle worker can
\* always take the next one, and the run returns only when every task was
\* taken and every agent has its result.
C12_NoAbort ==
    /\ \A w \in Workers :
          (phase = "feed" /\ next <= Len(tasks) /\ wk[w].pc = "idle") => ENABLED Receive(w)
    /\ (phase \in {"done", "exited"} /\ ~opts.DryRun) =>
          /\ next = Len(tasks) + 1
          /\ \A i \in Agents : writes[i] = 1

\* A result changes only in a step of the detect loop for its own agent or
\* of the worker that runs the agent's task; it is failed exactly when that
\* worker's own command exited non-zero; the step changes no other result
\* and no other worker's locals, and it leaves the queue, the channel and
\* the run context as they are.
C12_Frame ==
    \A i \in Agents :
        results'[i] # results[i] =>
            \/ phase = "detect" /\ i = di /\ results'[i].Status # statusFailed
            \/ \E w \in Workers :
                  /\ wk[w].pc \in {"finish", "ind_finish"}
                  /\ wk[w].task = TaskOf(i)
                  /\ i = Task(w).agents[wk[w].fi]
                  /\ (results'[i].Status = statusFailed <=> wk[w].code # 0)
                  /\ \A j \in Agents \ {i} : results'[j] = results[j]
                  /\ \A v \in Workers \ {w} : wk'[v] = wk[v]
                  /\ UNCHANGED <<tasks, next, closed, phase, canceled>>

\* C12: a failure of one agent's command never aborts the run and never
\* changes the result of an agent in another task.
C12_FailureIsolation == []C12_NoAbort /\ [][C12_Frame]_vars

\* C12 witness: in a serial run with two tasks the first task's agent
\* failed and the second task's agent, run after it, is updated.
C12_Witness ==
    /\ phase = "done" /\ opts.Serial /\ Len(tasks) = 2
    /\ results[tasks[1].agents[1]].Status = statusFailed
    /\ results[tasks[2].agents[1]].Status = statusUpdated
\* ------------------------------------------- claims on one command call
NpmGlobalInstallOrUpdate(cmd) ==
    Len(cmd.argv) >= 2 /\ cmd.argv[1] = "npm" /\ cmd.argv[2] \in {"install", "update"}

QuotaMarkers == {"TerminalQuotaError", "Quota will reset"}
RenameMarkers == {"ENOTEMPTY", "errno -66", "Directory not empty"}
PermissionMarkers == {"EACCES"}
NetworkMarkers == {"ETIMEDOUT"}
BrewMarkers == {"Homebrew is already updating"}

\* The reason tags whose markers an output of a command carries.
Matched(cmd, out) ==
    (IF out \cap QuotaMarkers # {} THEN {"quota"} ELSE {})
    \cup (IF NpmGlobalInstallOrUpdate(cmd) /\ out \cap RenameMarkers # {}
          THEN {"npm ENOTEMPTY"} ELSE {})
    \cup (IF out \cap PermissionMarkers # {} THEN {"permission"} ELSE {})
    \cup (IF out \cap NetworkMarkers # {} THEN {"network"} ELSE {})
    \cup (IF "SSL routines" \in out \/ {"TLS", "certificate"} \subseteq out
          THEN {"tls"} ELSE {})
    \cup (IF Len(cmd.argv) > 0 /\ cmd.argv[1] = "brew" /\ out \cap BrewMarkers # {}
          THEN {"brew busy"} ELSE {})

Priority == <<"quota", "npm ENOTEMPTY", "permission", "network", "tls", "brew busy">>

\* The first tag in priority order that matched, else the literal exit code.
ExpectedReason(cmd, out, code) ==
    IF Matched(cmd, out) = {} THEN ExitReason(code)
    ELSE Priority[Min({k \in 1..Len(Priority) : Priority[k] \in Matched(cmd, out)})]

\* C13: one call of runUpdateCmd runs the command at most twice, and a
\* second run happens only for an npm global install/update whose first
\* attempt failed with a rename marker in its output.
C13_RetryBound ==
        /\ Len(uc.attempts) <= 2
        /\ uc.l.attempt <= 2
        /\ (Len(uc.attempts) = 2 \/ uc.l.attempt = 2) =>
              /\ NpmGlobalInstallOrUpdate(uc.cmd)
              /\ uc.attempts[1].code # 0
              /\ uc.attempts[1].out \cap RenameMarkers # {}

\* C13 witness: an npm install was run twice and the retry failed with the
\* rename marker again.
C13_Witness ==
    /\ uc.l.pc = "done" /\ Len(uc.attempts) = 2
    /\ uc.attempts[2].code = 1
    /\ uc.res.Reason = reasonNpmNotEmpty

\* C14: a failure that is neither a timeout nor a cancellation code gets
\* the first reason in priority order whose markers its output carries
\* (the rename reason only for npm global install/update, brew busy only
\* for brew), else the literal exit code.
C14_ClassificationOrder ==
    (uc.l.pc = "done"
        /\ uc.l.code \notin {0, exitCodeTimeout, exitCodeCanceled}) =>
        /\ uc.res.Status = statusFailed
        /\ uc.res.Reason = ExpectedReason(uc.cmd, uc.l.out, uc.l.code)

\* C14 witness: an npm install whose output carries the quota and the
\* rename marker is reported as quota.
C14_Witness ==
    /\ uc.l.pc = "done" /\ NpmGlobalInstallOrUpdate(uc.cmd)
    /\ uc.l.out = {"TerminalQuotaError", "ENOTEMPTY"}
    /\ uc.res = [Status |-> statusFailed, Reason |-> reasonQuota]

\* An attempt ended by the deadline, or by the cancellation.
ByTimeout(o) == o.how \in {"timeout", "expired"}
ByCancel(o) == o.how \in {"canceled", "notstarted"}

\* C15: an attempt that ended by timeout or cancellation is not retried,
\* and the result it decides has reason "timeout" or "canceled" whatever
\* its output.
C15_StructuralFirst ==
        /\ (Len(uc.attempts) >= 1 /\ (ByTimeout(uc.attempts[1]) \/ ByCancel(uc.attempts[1]))) =>
              (Len(uc.attempts) = 1 /\ uc.l.attempt = 1)
        /\ uc.l.pc = "done" =>
              LET last == uc.attempts[Len(uc.attempts)]
              IN  /\ ByTimeout(last) => uc.res = [Status |-> statusFailed, Reason |-> "timeout"]
                  /\ ByCancel(last) => uc.res = [Status |-> statusFailed, Reason |-> "canceled"]
\* ------------------------------------------------ claims on the resolver
Resolved(i) == Len(resolutions[i]) >= 1

\* The evidence rule for a node-family strategy: its manager is present,
\* the agent has a binary and the strategy a package, and the binary's
\* directory is this manager's bin dir; or no manager has that and the
\* package list names this manager; or neither and this manager's bin
\* dir holds the binary.
NodeUsable(agent, e, strat) ==
    LET byBin == nodeManagerForBinary(e, LookPath(e, agent.Binary))
        byList == nodeManagerForPackage(e, nodePackageName(agent.Strategies))
    IN  /\ hasNodeManager(e, strat.Kind)
        /\ agent.Binary # "" /\ strat.Package # 0
        /\ \/ byBin = strat.Kind
           \/ byBin = "" /\ byList = strat.Kind
           \/ byBin = "" /\ byList = "" /\ agent.Binary \in e.nodeBin[strat.Kind]

\* A strategy is usable: native with the binary on the search path (or no
\* binary declared); brew, pip, uv and vscode with the manager present and
\* the package or extension in its listing.
Usable(agent, e, j) ==
    LET strat == agent.Strategies[j]
    IN  CASE strat.Kind = KindNative -> agent.Binary = "" \/ agent.Binary \in e.path
          [] isNodeKind(strat.Kind) -> NodeUsable(agent, e, strat)
          [] strat.Kind = KindBrew -> e.hasBrew /\ strat.Package \in e.brewFormulae
          [] strat.Kind = KindPip -> e.hasPython /\ strat.Package \in e.pipPkgs
          [] strat.Kind = KindUv -> e.hasUv /\ strat.Package \in e.uvTools
          [] strat.Kind = KindVSCode -> e.codeCmd # "" /\ strat.ExtensionID \in e.codeExts
          [] OTHER -> FALSE

UsableSet(agent, e) == {j \in 1..Len(agent.Strategies) : Usable(agent, e, j)}

\* C16: an agent whose binary is not on the search path is resolved to
\* skip reason "missing" and is in no task, whatever else the probe reports.
C16_MissingBinary ==
    \A i \in Agents :
        (Resolved(i) /\ selected[i].Binary # "" /\ selected[i].Binary \notin env.path) =>
            /\ IsNil(resolved[i].cmd)
            /\ resolved[i].reason = reasonMissing
            /\ phase = "detect" => TaskOf(i) = 0

\* C17: an agent whose binary is on the search path and none of whose
\* strategies is usable is resolved to skip reason "manual install".
C17_ManualInstall ==
    \A i \in Agents :
        (Resolved(i) /\ selected[i].Binary \in env.path /\ UsableSet(selected[i], env) = {}) =>
            /\ IsNil(resolved[i].cmd)
            /\ resolved[i].reason = reasonManualInstall

\* C18: resolution returns the command of the first usable strategy in
\* declared order, and no command when none is usable.
C18_FirstUsable ==
    \A i \in Agents :
        Resolved(i) =>
            LET agent == selected[i]
                U == UsableSet(agent, env)
            IN  IF U = {}
                THEN IsNil(resolved[i].cmd) /\ resolved[i].method = ""
                ELSE LET strat == agent.Strategies[Min(U)]
                     IN  /\ resolved[i].method = strat.Kind
                         /\ resolved[i].cmd = ResolvedCmd(strat.Kind, strat.Package)
                         /\ resolved[i].reason = ""

\* C18 witness: aider with both its uv tool and its pip package installed
\* is resolved to uv, the strategy declared first.
C18_Witness ==
    \E i \in Agents :
        /\ Resolved(i) /\ selected[i].Name = "aider"
        /\ UsableSet(selected[i], env) = {1, 2}
        /\ resolved[i].method = KindUv

\* C19: every resolution of an agent against the same snapshot returns
\* the same command, skip reason, kind and explanation, two entries of the
\* selection that are the same agent resolve alike, and the path cache
\* only ever holds what the lookup reports.
C19_ResolveIdempotent ==
    /\ \A i \in Agents : \A a, b \in 1..Len(resolutions[i]) :
          resolutions[i][a] = resolutions[i][b]
    /\ \A i, j \in Agents :
          (Resolved(i) /\ Resolved(j) /\ selected[i] = selected[j]) =>
              resolutions[i][1] = resolutions[j][1]
    /\ \A b \in BinaryNames :
          binPathCache[b] # CacheUnset => binPathCache[b] = LookPath(env, b)

\* C19 witness: an agent with its binary on the search path was resolved
\* twice to the same command, the second time through the path cache.
C19_Witness ==
    \E i \in Agents :
        /\ Len(resolutions[i]) = 2
        /\ selected[i].Binary \in env.path
        /\ binPathCache[selected[i].Binary] = selected[i].Binary
        /\ ~IsNil(resolutions[i][2].cmd)

\* ------------------------------------------------- claims on task building
\* The agents resolved to node kind k with a package name.
BatchGroup(k) ==
    {i \in Agents : ~IsNil(resolved[i].cmd) /\ resolved[i].method = k /\ resolved[i].pkg # 0}

TasksWith(i) == {t \in 1..Len(tasks) : i \in SeqRange(tasks[t].agents)}

\* C20: the agents resolved to one node kind with a package name are in
\* exactly one task, which holds all of them and whose command names each
\* of their distinct packages once, in ascending order; every other agent
\* with a command is alone in a task that runs its own command.
C20_Batching ==
    phase = "detect" =>
        /\ \A k \in {kk \in AllKinds : isNodeKind(kk)} :
              BatchGroup(k) # {} =>
                  \E t \in 1..Len(tasks) :
                      /\ tasks[t].kind = k
                      /\ SeqRange(tasks[t].agents) = BatchGroup(k)
                      /\ Len(tasks[t].agents) = Cardinality(BatchGroup(k))
                      /\ tasks[t].cmd.argv = nodeBatchUpdateCommand(k, <<>>).argv
                      /\ SeqRange(tasks[t].cmd.pkgs) = {resolved[i].pkg : i \in BatchGroup(k)}
                      /\ \A a, b \in 1..Len(tasks[t].cmd.pkgs) :
                            a < b => tasks[t].cmd.pkgs[a] < tasks[t].cmd.pkgs[b]
                      /\ \A i \in BatchGroup(k) : TasksWith(i) = {t}
        /\ \A i \in Agents :
              (~IsNil(resolved[i].cmd) /\ (~isNodeKind(resolved[i].method) \/ resolved[i].pkg = 0)) =>
                  \E t \in 1..Len(tasks) :
                      /\ TasksWith(i) = {t}
                      /\ tasks[t].agents = <<i>>
                      /\ tasks[t].kind = resolved[i].method
                      /\ tasks[t].cmd = resolved[i].cmd
        /\ \A i \in Agents : IsNil(resolved[i].cmd) => TasksWith(i) = {}

\* C20 witness: two agents resolved to npm with the same package name
\* share one task whose command names the package once.
C20_Witness ==
    /\ phase = "detect"
    /\ Len(tasks) = 1
    /\ Len(tasks[1].agents) = 2
    /\ tasks[1].kind = KindNpm
    /\ Len(tasks[1].cmd.pkgs) = 1
\* ------------------------------------------------------ claims on dry run
\* C22: in a dry run no task is handed to a worker, no worker goroutine
\* runs, no kind lock exists or is held and no command attempt ends; once
\* the run has returned, every agent with a resolved command is updated
\* with reason "dry-run" and every other agent is skipped.
C22_DryRun ==
    opts.DryRun =>
        /\ next = 1
        /\ \A w \in Workers : wk[w].pc = "none"
        /\ mu = 0 /\ mutexes = <<>> /\ \A k \in AllKinds : locks[k] = 0
        /\ \A i \in Agents : lastEnd[i] = "none" /\ phaseStart \notin SeqRange(evlog[i])
        /\ ~lateChild
        /\ phase \in {"done", "exited"} =>
              \A i \in Agents :
                  IF IsNil(resolved[i].cmd)
                  THEN results[i].Status = statusSkipped
                  ELSE results[i] = [Status |-> statusUpdated, Reason |-> "dry-run"]

\* C22 witness: a dry run has returned with an agent that has a command
\* and an agent that has none.
C22_Witness ==
    /\ opts.DryRun /\ phase = "done"
    /\ \E i, j \in Agents :
          /\ ~IsNil(resolved[i].cmd) /\ results[i].Reason = "dry-run"
          /\ IsNil(resolved[j].cmd) /\ results[j].Status = statusSkipped
\* --------------------------------------------------- claims on the results
Statuses == {statusUpdated, statusUnchanged, statusSkipped, statusFailed}

ClosedSkipReasons == {reasonMissing, reasonManualInstall, reasonMissingCode}

\* C26: an agent with no usable strategy is resolved without a command and
\* with a reason of the closed set; the detect loop gives it a Result with
\* status skipped and that reason, and goes on to the next agent.
C26_NonMatchNotFatal ==
    /\ \A i \in Agents :
          (Resolved(i) /\ UsableSet(selected[i], env) = {}) =>
              /\ IsNil(resolved[i].cmd)
              /\ resolved[i].reason \in ClosedSkipReasons
              /\ (phase = "detect" /\ di > i) =>
                    /\ results[i].Status = statusSkipped
                    /\ results[i].Reason = resolved[i].reason
                    /\ resultAgent[i] = i
    /\ \A i \in Agents : results[i].Status # statusFailed
    /\ (phase = "detect" /\ di <= NumAgents) => ENABLED (DetectSkipped \/ DetectPending)

\* C26 witness: the first agent had no usable strategy and was skipped, and
\* the detect loop then reached an agent that has an update command.
C26_Witness ==
    /\ phase = "detect" /\ di > NumAgents
    /\ UsableSet(selected[1], env) = {}
    /\ results[1].Status = statusSkipped
    /\ ~IsNil(resolved[NumAgents].cmd)

\* The absence of the editor CLI is the only thing that blocked the agent's
\* strategies: each of them is an editor extension strategy.
OnlyEditorBlocked(agent, e) ==
    /\ e.codeCmd = ""
    /\ \A j \in 1..Len(agent.Strategies) : agent.Strategies[j].Kind = KindVSCode

\* C28: with no usable strategy the skip reason is "missing vscode" only
\* when the missing editor CLI was the only blocking reason, otherwise
\* "manual install" when the binary is on the search path, otherwise
\* "missing".
C28_SkipPrecedence ==
    \A i \in Agents :
        (Resolved(i) /\ UsableSet(selected[i], env) = {}) =>
            resolved[i].reason =
                IF OnlyEditorBlocked(selected[i], env) THEN reasonMissingCode
                ELSE IF selected[i].Binary \in env.path THEN reasonManualInstall
                ELSE reasonMissing
\* ------------------------------------------------ claims on node evidence
\* The present node managers whose global bin directory is the directory
\* of the agent's binary, and those whose global package list has the
\* agent's package.
BinDirEvidence(agent, e) ==
    {k \in NodeKinds : hasNodeManager(e, k) /\ agent.Binary \in e.path
                        /\ agent.Binary \in e.binDirOf[k]}

ListEvidence(agent, e) ==
    {k \in NodeKinds : hasNodeManager(e, k)
                        /\ nodePackageName(agent.Strategies) \in e.nodePkgs[k]}

\* C29: an agent resolved to a node manager k has k present; if some
\* manager has bin-directory evidence then k is such a manager, and the
\* package list was not what matched; else if exactly one manager lists
\* the package then k is that manager; else k's bin directory holds the
\* binary.
C29_NodeEvidence ==
    \A i \in Agents :
        (Resolved(i) /\ isNodeKind(resolutions[i][1].method)) =>
            LET agent == selected[i]
                k == resolutions[i][1].method
                bin == BinDirEvidence(agent, env)
                list == ListEvidence(agent, env)
            IN  /\ hasNodeManager(env, k)
                /\ resolutions[i][1].detail = "matched by package list" =>
                      (bin = {} /\ list = {k})
                /\ bin # {} => k \in bin
                /\ (bin = {} /\ Cardinality(list) = 1) => k \in list
                /\ (bin = {} /\ Cardinality(list) # 1) => agent.Binary \in env.nodeBin[k]

\* The managers nodeManagerForBinary can name: present, with a bin
\* directory that is the directory of the binary found on the search
\* path, directly or through its link target.
LookupMatches ==
    {k \in NodeKinds : /\ nm.found /\ nm.mgr[k].present /\ nm.mgr[k].dir # ""
                        /\ (nm.mgr[k].dir = "bin" \/ (nm.linked /\ nm.mgr[k].dir = "link"))}

StrictlyLongest ==
    {k \in LookupMatches : \A j \in LookupMatches \ {k} : nm.mgr[k].len > nm.mgr[j].len}

\* C30: nodeManagerForBinary returns the matching manager whose bin
\* directory path is strictly the longest, and no manager when nothing
\* matches or the longest is tied.
C30_LongestBinDir ==
    nm.pc = "done" =>
        IF StrictlyLongest = {} THEN nm.result = ""
        ELSE nm.result \in StrictlyLongest

\* C30 witness: three managers match, the first two with bin directories
\* of the same length and a later one with a longer one, which is returned.
C30_Witness ==
    /\ nm.pc = "done"
    /\ Cardinality(LookupMatches) >= 3
    /\ nm.mgr[KindNpm].len = 1 /\ nm.mgr[KindPnpm].len = 1
    /\ {KindNpm, KindPnpm} \subseteq LookupMatches
    /\ nm.result \in {KindYarn, KindBun}

\* ----------------------------------------------- claims on the npm cleanup
\* What a deletion requires of the pair: both paths absolute, the same
\* parent directory, and the destination on disk.
PairPlaced ==
    /\ cl.path.abs /\ cl.dest.abs
    /\ Dir(cl.path) = Dir(cl.dest)
    /\ cl.destExists

\* C25: the cleanup removes nothing but the destination, and only when
\* both paths are absolute, have the same parent directory, the
\* destination's base name begins with a dot followed by the source's base
\* name, and the destination exists; the retry follows in every case.
C25_CleanupSafe ==
    /\ cl.removed # {} =>
          /\ cl.removed = {cl.dest}
          /\ PairPlaced
          /\ Len(cl.dest.base) > Len(cl.path.base)
          /\ cl.dest.base[1] = "."
          /\ SubSeq(cl.dest.base, 2, Len(cl.path.base) + 1) = cl.path.base
    /\ cl.pc = "retry" => ENABLED RetryAfterCleanup
    /\ cl.pc = "done" => cl.retried

\* C25 witness: the stale directory .pq beside p was removed and the
\* retry was made.
C25_Witness ==
    /\ cl.pc = "done" /\ cl.retried
    /\ cl.removed = {cl.dest}
    /\ cl.path.base = <<"p">> /\ cl.dest.base = <<".", "p", "q">>
    /\ cl.path.dir # cl.dest.dir

\* C25 as stated: a removed destination has exactly the source's base name
\* with a dot before it.
C25_ExactDotName ==
    cl.removed # {} =>
        /\ cl.removed = {cl.dest}
        /\ PairPlaced
        /\ cl.dest.base = <<".">> \o cl.path.base

\* ------------------------------------------ claims on lazily loaded values
\* C21: the load function of a lazily loaded value runs at most once; a
\* caller reads the field only after the load has finished, waits for the
\* mutex while the load runs, and every caller observes the one loaded
\* value.
C21_ComputeOnce ==
    /\ once.loads <= 1
    /\ \A c \in OnceCallers :
          /\ once.callers[c].pc \in {"read", "returned"} =>
                (once.done /\ once.value \in LoadResults)
          /\ once.callers[c].calls > 0 => once.callers[c].obs = once.value
          /\ (once.callers[c].pc = "slow" /\ once.m # 0) => ~ENABLED OnceLock(c)
    /\ \A c, d \in OnceCallers :
          (once.callers[c].calls > 0 /\ once.callers[d].calls > 0) =>
              once.callers[c].obs = once.callers[d].obs

\* C21 witness: every caller has made all its queries, the load ran once,
\* and all of them observed the list it reported.
C21_Witness ==
    /\ once.loads = 1
    /\ \A c \in OnceCallers :
          /\ once.callers[c].calls = MaxCalls
          /\ once.callers[c].obs = "list B"

\* ------------------------------------------------- claims on the dashboard
RowRank(status) ==
    CASE status = "pending" -> 0
      [] status = "updating" -> 1
      [] OTHER -> 2

\* C23: each step leaves every row where it was or moves it forward from
\* pending to updating to one of the four final statuses; a row with a
\* final status keeps it, and a row becomes skipped only from pending.
C23_RowForward ==
    [][\A i \in Agents :
          /\ ui.rows'[i] \in {"pending", "updating"} \cup Statuses
          /\ RowRank(ui.rows'[i]) >= RowRank(ui.rows[i])
          /\ RowRank(ui.rows[i]) = 2 => ui.rows'[i] = ui.rows[i]
          /\ ui.rows'[i] = statusSkipped => ui.rows[i] \in {"pending", statusSkipped}]_vars

\* C23 witness: all events were applied; one row went through updating to
\* failed and another went from pending to skipped.
C23_Witness ==
    /\ phase = "done" /\ ui.events = <<>>
    /\ \E i, j \in Agents :
          /\ ui.rows[i] = statusFailed /\ phaseStart \in SeqRange(evlog[i])
          /\ ui.rows[j] = statusSkipped /\ phaseStart \notin SeqRange(evlog[j])

\* C24: the events channel never holds as many events as its capacity,
\* and no sender ever finds it without room: not the detect loop, not a
\* worker about to send its start events, not a worker about to send a
\* finish event.
C24_NeverFull ==
    /\ Len(ui.events) < eventsCap
    /\ (phase = "detect" /\ di <= NumAgents) => CanSend(2)
    /\ \A w \in Workers :
          /\ wk[w].pc = "prepare" => CanSend(Len(Task(w).agents))
          /\ wk[w].pc \in {"finish", "ind_finish"} => CanSend(1)

\* C24 witness: every agent's three events are in the channel and the
\* dashboard has taken none.
C24_Witness ==
    /\ Len(ui.events) = 3 * NumAgents
    /\ \A i \in Agents : ui.rows[i] = "pending"

\* ------------------------------------- claims on the retry and the classifier
\* C36: for the command of the call and every output an attempt produced
\* that carries no quota marker, shouldRetryNpm holds exactly when
\* classifyUpdateFailure yields "npm ENOTEMPTY"; and a call whose first
\* attempt failed with an output so labelled made a second attempt.
C36_RetryAgreesWithClassifier ==
    /\ \A k \in 1..Len(uc.attempts) :
          LET out == uc.attempts[k].out
          IN  out \cap QuotaMarkers = {} =>
                 (shouldRetryNpm(uc.cmd, out)
                     <=> classifyUpdateFailure(uc.cmd, out) = reasonNpmNotEmpty)
    /\ (uc.l.pc = "done" /\ uc.attempts[1].code # 0
           /\ uc.attempts[1].out \cap QuotaMarkers = {}
           /\ classifyUpdateFailure(uc.cmd, uc.attempts[1].out) = reasonNpmNotEmpty) =>
          Len(uc.attempts) = 2

\* ------------------------------------------ claims on the structural reasons
\* C34: a result has reason "timeout" only if the attempt that decided it
\* was ended by the per-command deadline, which needs a timeout above 0,
\* and reason "canceled" only if that attempt was ended by the
\* cancellation of the run; a child that exits on its own is reported by
\* its exit code or by a reason of the classifier.
C34_StructuralReasonsOnlyStructural ==
    uc.l.pc = "done" =>
        LET last == uc.attempts[Len(uc.attempts)]
        IN  /\ uc.res.Reason = "timeout" => (ByTimeout(last) /\ uc.timeout > 0)
            /\ uc.res.Reason = "canceled" => ByCancel(last)
            /\ last.how = "exit" => uc.res.Reason \notin {"timeout", "canceled"}

\* ------------------------------------------------- claims on the npm retry
\* C35: when runUpdateCmd made the retry, the result is decided by the
\* retry: a retry that exits 0 gives updated or unchanged; a retry that
\* fails is classified with its own exit code and its own output, or with
\* the first attempt's output when the retry printed nothing; and the
\* returned duration is the sum of the durations of both attempts.
C35_RetryDecides ==
    (uc.l.pc = "done" /\ Len(uc.attempts) = 2) =>
        LET first == uc.attempts[1]
            retry == uc.attempts[2]
        IN  /\ retry.code = 0 => uc.res.Status \in {statusUpdated, statusUnchanged}
            /\ retry.code # 0 =>
                   uc.res = setFailureResult(retry.code, uc.cmd,
                                IF retry.out = OutEmpty THEN first.out ELSE retry.out)
            /\ uc.duration = uc.durs[1] + uc.durs[2]

\* C35 witness: the first attempt failed with the rename marker, the
\* retry failed with a permission error of its own, and the result is
\* the retry's.
C35_Witness ==
    /\ uc.l.pc = "done" /\ Len(uc.attempts) = 2
    /\ uc.attempts[1].out = {"ENOTEMPTY"}
    /\ uc.attempts[2].code = 1 /\ uc.attempts[2].out = {"EACCES"}
    /\ uc.res = [Status |-> statusFailed, Reason |-> "permission"]
    /\ uc.durs = <<1, 2>> /\ uc.duration = 3

\* ------------------------------------------- claims on the batch command
\* The packages the singleton commands of a task's agents update.
SingletonPackages(t) ==
    UNION {SeqRange(resolved[tasks[t].agents[j]].cmd.pkgs) : j \in 1..Len(tasks[t].agents)}

PlacesOf(i) ==
    {p \in {<<t, j>> : t \in 1..Len(tasks), j \in 1..NumAgents} :
        p[2] <= Len(tasks[p[1]].agents) /\ tasks[p[1]].agents[p[2]] = i}

\* C38: after task building, every agent with a resolved command stands
\* at exactly one place of exactly one task, an agent without a command
\* stands in none, every task has at least one agent and only agents
\* that were selected, only tasks of a node kind have more than one
\* agent, and no node kind has two tasks with more than one agent or two
\* tasks whose command names more than one package.
C38_TasksPartition ==
    phase = "detect" =>
        /\ \A i \in Agents :
              Cardinality(PlacesOf(i)) = IF IsNil(resolved[i].cmd) THEN 0 ELSE 1
        /\ \A t \in 1..Len(tasks) :
              /\ Len(tasks[t].agents) >= 1
              /\ SeqRange(tasks[t].agents) \subseteq Agents
              /\ Len(tasks[t].agents) > 1 => isNodeKind(tasks[t].kind)
              /\ \A j \in 1..Len(tasks[t].agents) :
                    resolved[tasks[t].agents[j]].method = tasks[t].kind
        /\ \A t, u \in 1..Len(tasks) :
              (t # u /\ tasks[t].kind = tasks[u].kind) =>
                  /\ ~(Len(tasks[t].agents) > 1 /\ Len(tasks[u].agents) > 1)
                  /\ ~(Len(tasks[t].cmd.pkgs) > 1 /\ Len(tasks[u].cmd.pkgs) > 1)

\* C38 witness: two npm agents, one with a package name and one without,
\* are in two tasks of their own.
C38_Witness ==
    /\ phase = "detect"
    /\ \E i, j \in Agents :
          /\ i # j
          /\ resolved[i].method = KindNpm /\ resolved[i].pkg = 0
          /\ resolved[j].method = KindNpm /\ resolved[j].pkg # 0
          /\ Len(tasks) = 2
          /\ PlacesOf(i) # PlacesOf(j)

\* ------------------------------------------- claims on the extent of the lock
\* The kinds that must not run concurrently with themselves: every kind
\* but the built-in update.
MutatingKinds == AllKinds \ {KindNative}

\* The steps of runTask between locker.lock(kind) and the deferred unlock.
InTask(w) == wk[w].pc \in {"prepare", "run", "wait", "finish", "ind_finish"}

\* The tasks of kind k with an agent whose start event was sent and whose
\* finish event was not.
OpenTasks(k) ==
    {t \in 1..Len(tasks) :
        /\ tasks[t].kind = k
        /\ \E j \in 1..Len(tasks[t].agents) :
              /\ phaseStart \in SeqRange(evlog[tasks[t].agents[j]])
              /\ phaseFinish \notin SeqRange(evlog[tasks[t].agents[j]])}

\* C39: a worker at any step of runTask on a task of a mutating kind,
\* from the version probes and start events through the command, the npm
\* retry, the individual retries and the finish events, holds the mutex
\* of that kind; while a worker is in the individual retries no other
\* worker is at any step of a task of the same kind; and of every
\* mutating kind at most one task has agents between their start and
\* finish events.
C39_WholeTaskUnderLock ==
    /\ \A w \in Workers :
          (InTask(w) /\ Task(w).kind \in MutatingKinds) =>
              /\ wk[w].m # 0
              /\ locks[Task(w).kind] = wk[w].m
              /\ mutexes[wk[w].m] = w
    /\ \A w, v \in Workers :
          (w # v /\ wk[w].ind /\ wk[v].task # 0 /\ Task(v).kind = Task(w).kind) =>
              ~InTask(v)
    /\ \A k \in MutatingKinds : Cardinality(OpenTasks(k)) <= 1

\* C39 witness: after a failed batch the second individual retry is in
\* flight under the lock taken before the start events; the first agent
\* has its finish event and the second has only its start event.
C39_Witness ==
    \E w \in Workers :
        /\ wk[w].ind /\ wk[w].pc = "wait" /\ wk[w].fi = 2
        /\ mutexes[wk[w].m] = w
        /\ phaseFinish \in SeqRange(evlog[Task(w).agents[1]])
        /\ evlog[Task(w).agents[2]] = <<phaseDetect, phaseStart>>

\* ------------------------------------------------------ claims on termination
\* The run has returned from the worker pool: the task channel is closed
\* with every task handed over and every worker goroutine has exited.
PoolDrained ==
    /\ closed /\ next = Len(tasks) + 1
    /\ \A w \in Workers : wk[w].pc = (IF w <= workerCount THEN "exited" ELSE "none")
    /\ mu = 0 /\ \A k \in 1..Len(mutexes) : mutexes[k] = 0

\* C33: every fair run returns and the process exits; a run that has
\* returned has either returned from the dry-run branch or has drained
\* the task channel with all its workers exited and all locks free, and
\* every selected agent has one of the four final statuses; and until the
\* run returns some step of the main goroutine or of a worker can be
\* taken.
C33_Terminates ==
    /\ <>(phase = "exited")
    /\ [](phase \in {"done", "exited"} =>
            /\ DryRunReturns \/ PoolDrained
            /\ \A i \in Agents : results[i].Status \in Statuses)
    /\ [](phase \notin {"done", "exited"} =>
            (ENABLED MainStep \/ \E w \in Workers : ENABLED WorkerStep(w)))

\* C33 witness: a run with two workers and two tasks of one locked kind,
\* of which one worker had to wait for the other, has returned.
C33_Witness ==
    /\ phase = "done" /\ PoolDrained
    /\ workerCount = 2 /\ Len(tasks) = 2
    /\ tasks[1].kind = KindVSCode /\ tasks[2].kind = KindVSCode
    /\ Len(mutexes) = 1

\* ------------------------------------------ claims on unchanged and updated
\* A version that names a release: neither empty nor "unknown".
Concrete(v) == v # "" /\ v # VersionUnknown

C40_RowsMatchResults ==
    (ui.on /\ phase = "exited") =>
        /\ ui.events = <<>>
        /\ \A i \in Agents :
              /\ ui.rows[i] = results[i].Status
              /\ ui.detail[i].reason = results[i].Reason
              /\ ui.detail[i].before = resultVersions[i].Before
              /\ ui.detail[i].after = resultVersions[i].After

\* C40 witness: a run with the dashboard has returned with one agent
\* failed with a reason and another unchanged at version 1.0.
C40_Witness ==
    /\ ui.on /\ phase = "exited"
    /\ \E i, j \in Agents :
          /\ ui.rows[i] = statusFailed /\ ui.detail[i].reason # ""
          /\ ui.rows[j] = statusUnchanged /\ ui.detail[j].after = "1.0"

\* ------------------------------------------ claims on the individual retries
\* C32: the log of an agent that was retried individually after a failed
\* batch carries the note that an individual retry followed a batch
\* failure, whatever the batch and the individual retry printed.
C32_LogExplainsRetry ==
    fb.pc = "done" => RetryNote \in SeqRange(fb.log)
====
